---- MODULE Spec2Model ----
(***************************************************************************)
(* Object-storage integration layer of template_next (utils/minio):        *)
(* bucket bootstrap with retry/backoff, policy reconciliation by canonical *)
(* comparison, the memoized minioInit promise, and uploadToMinio.          *)
(*                                                                         *)
(* Strings that the code inspects character by character are sequences of  *)
(* tokens.  A JSON text is a sequence of lexical tokens: the punctuation   *)
(* "{" "}" "[" "]" ":" ",", the whitespace token " ", and string literals  *)
(* (a token that starts with a double quote).                              *)
(***************************************************************************)
EXTENDS Integers, Sequences, FiniteSets, TLC

(***************************************************************************)
(* JSON texts                                                              *)
(***************************************************************************)

\* String literals that occur in policy documents (quotes included, as in the text).
qVersion == "\"Version\""
qStatement == "\"Statement\""
qSid == "\"Sid\""
qEffect == "\"Effect\""
qPrincipal == "\"Principal\""
qAction == "\"Action\""
qResource == "\"Resource\""
qAWS == "\"AWS\""

StrToks ==
    { qVersion, qStatement, qSid, qEffect, qPrincipal, qAction, qResource, qAWS,
      "\"2012-10-17\"", "\"AllowPublicReadGetObject\"", "\"AllowPublicGetBucketLocation\"",
      "\"Allow\"", "\"Deny\"", "\"*\"", "\"s3:GetObject\"", "\"s3:PutObject\"",
      "\"s3:GetBucketLocation\"", "\"arn:aws:s3:::bucket/*\"", "\"arn:aws:s3:::bucket\"" }

\* Position of a key in the order Array.prototype.sort() gives (UTF-16 code units):
\* "AWS" < "Action" < "Effect" < "Principal" < "Resource" < "Sid" < "Statement" < "Version";
\* the value literals follow in code-unit order.
KeyRank(k) ==
    CASE k = "\"*\"" -> 1
      [] k = "\"2012-10-17\"" -> 2
      [] k = qAWS -> 3
      [] k = qAction -> 4
      [] k = "\"Allow\"" -> 5
      [] k = "\"AllowPublicGetBucketLocation\"" -> 6
      [] k = "\"AllowPublicReadGetObject\"" -> 7
      [] k = "\"Deny\"" -> 8
      [] k = qEffect -> 9
      [] k = qPrincipal -> 10
      [] k = qResource -> 11
      [] k = qSid -> 12
      [] k = qStatement -> 13
      [] k = qVersion -> 14
      [] k = "\"arn:aws:s3:::bucket\"" -> 15
      [] k = "\"arn:aws:s3:::bucket/*\"" -> 16
      [] k = "\"s3:GetBucketLocation\"" -> 17
      [] k = "\"s3:GetObject\"" -> 18
      [] k = "\"s3:PutObject\"" -> 19

\* JSON values: a string, an array (a sequence of values), an object (a function
\* from its keys to values, and the keys in the order they were inserted).
JStr(s) == [t |-> "str", s |-> s]
JArr(a) == [t |-> "arr", a |-> a]
JObj(o, ks) == [t |-> "obj", o |-> o, ks |-> ks]

EmptyObj == [k \in {} |-> JStr("")]

ParseFail == [ok |-> FALSE, v |-> JStr(""), i |-> 0]

RECURSIVE SkipWs(_, _)
SkipWs(s, i) == IF i <= Len(s) /\ s[i] = " " THEN SkipWs(s, i + 1) ELSE i

RECURSIVE ParseValue(_, _)
RECURSIVE ParseMembers(_, _, _, _)
RECURSIVE ParseElements(_, _, _)

\* The members of an object from position i (a key is expected there); o holds the
\* members read so far and ks their keys.  A repeated key keeps its first place and
\* its last value.
ParseMembers(s, i, o, ks) ==
    LET j == SkipWs(s, i) IN
    IF j > Len(s) \/ s[j] \notin StrToks THEN ParseFail
    ELSE LET c == SkipWs(s, j + 1) IN
         IF c > Len(s) \/ s[c] # ":" THEN ParseFail
         ELSE LET r == ParseValue(s, c + 1) IN
              IF ~r.ok THEN ParseFail
              ELSE LET e == SkipWs(s, r.i)
                       o2 == [k \in (DOMAIN o) \cup {s[j]} |-> IF k = s[j] THEN r.v ELSE o[k]]
                       ks2 == IF s[j] \in DOMAIN o THEN ks ELSE Append(ks, s[j])
                   IN  IF e > Len(s) THEN ParseFail
                       ELSE IF s[e] = "}" THEN [ok |-> TRUE, v |-> JObj(o2, ks2), i |-> e + 1]
                       ELSE IF s[e] = "," THEN ParseMembers(s, e + 1, o2, ks2)
                       ELSE ParseFail

\* The elements of an array from position i (a value is expected there).
ParseElements(s, i, a) ==
    LET r == ParseValue(s, i) IN
    IF ~r.ok THEN ParseFail
    ELSE LET e == SkipWs(s, r.i)
             a2 == Append(a, r.v)
         IN  IF e > Len(s) THEN ParseFail
             ELSE IF s[e] = "]" THEN [ok |-> TRUE, v |-> JArr(a2), i |-> e + 1]
             ELSE IF s[e] = "," THEN ParseElements(s, e + 1, a2)
             ELSE ParseFail

ParseValue(s, i) ==
    LET j == SkipWs(s, i) IN
    IF j > Len(s) THEN ParseFail
    ELSE IF s[j] \in StrToks THEN [ok |-> TRUE, v |-> JStr(s[j]), i |-> j + 1]
    ELSE IF s[j] = "{" THEN
        LET k == SkipWs(s, j + 1) IN
        IF k <= Len(s) /\ s[k] = "}" THEN [ok |-> TRUE, v |-> JObj(EmptyObj, << >>), i |-> k + 1]
        ELSE ParseMembers(s, k, EmptyObj, << >>)
    ELSE IF s[j] = "[" THEN
        LET k == SkipWs(s, j + 1) IN
        IF k <= Len(s) /\ s[k] = "]" THEN [ok |-> TRUE, v |-> JArr(<<>>), i |-> k + 1]
        ELSE ParseElements(s, k, <<>>)
    ELSE ParseFail

\* JSON.parse: one value, surrounded by optional whitespace, and nothing after it.
\* ok = FALSE stands for the SyntaxError it throws.
JSONparse(s) ==
    LET r == ParseValue(s, 1) IN
    IF r.ok /\ SkipWs(s, r.i) > Len(s) THEN [ok |-> TRUE, v |-> r.v] ELSE [ok |-> FALSE, v |-> JStr("")]

\* Object.keys(x): the keys in insertion order.
ObjectKeys(x) == x.ks

RECURSIVE SortSet(_)
SortSet(S) ==
    IF S = {} THEN <<>>
    ELSE LET m == CHOOSE k \in S : \A x \in S : KeyRank(k) <= KeyRank(x)
         IN  <<m>> \o SortSet(S \ {m})

\* Variant of SortKeys: the keys are left in insertion order (the sort forgotten).
SortKeys_Unsorted(keys) == keys

\* keys.sort(): the keys in ascending order.
SortKeys(keys) == SortSet({ keys[i] : i \in DOMAIN keys })

RECURSIVE stableStringify(_)
RECURSIVE JoinArr(_, _)
RECURSIVE JoinObj(_, _, _)

JoinArr(a, i) ==
    IF i > Len(a) THEN <<>>
    ELSE (IF i > 1 THEN <<",">> ELSE <<>>) \o stableStringify(a[i]) \o JoinArr(a, i + 1)

JoinObj(o, keys, i) ==
    IF i > Len(keys) THEN <<>>
    ELSE (IF i > 1 THEN <<",">> ELSE <<>>) \o <<keys[i], ":">> \o stableStringify(o[keys[i]])
         \o JoinObj(o, keys, i + 1)

stableStringify(x) ==
    IF x.t = "str" THEN <<x.s>>
    ELSE IF x.t = "arr" THEN <<"[">> \o JoinArr(x.a, 1) \o <<"]">>
    ELSE <<"{">> \o JoinObj(x.o, SortKeys(ObjectKeys(x)), 1) \o <<"}">>

\* Whitespace (the class \s of a regular expression, the characters trim() strips).
IsSpace(c) == c \in {" ", "\t", "\n"}

\* String.prototype.trim
RECURSIVE TrimStart(_)
TrimStart(s) == IF s # <<>> /\ IsSpace(Head(s)) THEN TrimStart(Tail(s)) ELSE s
RECURSIVE TrimEnd(_)
TrimEnd(s) == IF s # <<>> /\ IsSpace(s[Len(s)]) THEN TrimEnd(SubSeq(s, 1, Len(s) - 1)) ELSE s
trim(s) == TrimEnd(TrimStart(s))

\* Variant of policyEquals: the two texts are compared as trimmed strings only.
policyEquals_StringEquality(aStr, bStr) == trim(aStr) = trim(bStr)

policyEquals(aStr, bStr) ==
    LET a == JSONparse(aStr)
        b == JSONparse(bStr)
    IN  IF a.ok /\ b.ok THEN stableStringify(a.v) = stableStringify(b.v)
        ELSE trim(aStr) = trim(bStr)

(***************************************************************************)
(* The desired policy and the policy texts the model draws from            *)
(***************************************************************************)

\* One statement of a policy, in the key order of desiredPolicyObj.
StatementText(sid, effect, action, resource) ==
    << "{", qSid, ":", sid, ",", qEffect, ":", effect, ",",
       qPrincipal, ":", "{", qAWS, ":", "[", "\"*\"", "]", "}", ",",
       qAction, ":", "[", action, "]", ",",
       qResource, ":", "[", resource, "]", "}" >>

\* The same statement as another writer may lay it out: other key order, whitespace.
StatementTextReordered(sid, effect, action, resource) ==
    << "{", " ", qResource, ":", " ", "[", resource, "]", ",", " ",
       qAction, ":", "[", " ", action, " ", "]", ",",
       qPrincipal, " ", ":", "{", qAWS, ":", "[", "\"*\"", "]", " ", "}", ",",
       qEffect, ":", effect, ",", " ", qSid, ":", sid, " ", "}" >>

ReadStatement ==
    StatementText("\"AllowPublicReadGetObject\"", "\"Allow\"", "\"s3:GetObject\"",
                  "\"arn:aws:s3:::bucket/*\"")
LocationStatement ==
    StatementText("\"AllowPublicGetBucketLocation\"", "\"Allow\"", "\"s3:GetBucketLocation\"",
                  "\"arn:aws:s3:::bucket\"")

\* JSON.stringify(desiredPolicyObj): insertion order of the keys, no whitespace.
desiredPolicyStr ==
    << "{", qVersion, ":", "\"2012-10-17\"", ",", qStatement, ":", "[" >>
    \o ReadStatement \o <<",">> \o LocationStatement \o << "]", "}" >>

\* The desired policy with the keys in another order and with whitespace.
ReorderedPolicy ==
    << " ", "{", " ", qStatement, " ", ":", " ", "[", " " >>
    \o StatementTextReordered("\"AllowPublicReadGetObject\"", "\"Allow\"", "\"s3:GetObject\"",
                              "\"arn:aws:s3:::bucket/*\"")
    \o << " ", ",", " " >>
    \o StatementTextReordered("\"AllowPublicGetBucketLocation\"", "\"Allow\"",
                              "\"s3:GetBucketLocation\"", "\"arn:aws:s3:::bucket\"")
    \o << " ", "]", ",", qVersion, ":", " ", "\"2012-10-17\"", " ", "}", " " >>

PaddedPolicy == << " ", " " >> \o desiredPolicyStr \o << " " >>

\* The two statements in the other order: arrays keep their order, so this differs.
SwappedStatementsPolicy ==
    << "{", qVersion, ":", "\"2012-10-17\"", ",", qStatement, ":", "[" >>
    \o LocationStatement \o <<",">> \o ReadStatement \o << "]", "}" >>

\* A policy that also lets anyone write.
WritablePolicy ==
    << "{", qVersion, ":", "\"2012-10-17\"", ",", qStatement, ":", "[" >>
    \o StatementText("\"AllowPublicReadGetObject\"", "\"Allow\"", "\"s3:PutObject\"",
                     "\"arn:aws:s3:::bucket/*\"")
    \o <<",">> \o LocationStatement \o << "]", "}" >>

DenyPolicy ==
    << "{", qVersion, ":", "\"2012-10-17\"", ",", qStatement, ":", "[" >>
    \o StatementText("\"AllowPublicReadGetObject\"", "\"Deny\"", "\"s3:GetObject\"",
                     "\"arn:aws:s3:::bucket/*\"")
    \o <<",">> \o LocationStatement \o << "]", "}" >>

ReadOnlyStatementPolicy ==
    << "{", qVersion, ":", "\"2012-10-17\"", ",", qStatement, ":", "[" >>
    \o ReadStatement \o << "]", "}" >>

\* The desired policy with its first key written twice (JSON.parse keeps the last).
DuplicateKeyPolicy ==
    << "{", qVersion, ":", "\"Deny\"", ",", qVersion, ":", "\"2012-10-17\"", ",", qStatement, ":", "[" >>
    \o ReadStatement \o <<",">> \o LocationStatement \o << "]", "}" >>

\* Texts that JSON.parse rejects.
TruncatedText == << "{", qVersion, ":" >>
TruncatedTextPadded == << " ", "{", qVersion, ":", " " >>
TrailingCommaText == << "[", "\"*\"", ",", "]" >>
EmptyText == << >>

EmptyObjectText == << "{", " ", "}" >>
EmptyObjectTextTight == << "{", "}" >>

Docs ==
    { desiredPolicyStr, ReorderedPolicy, PaddedPolicy, SwappedStatementsPolicy, WritablePolicy,
      DenyPolicy, ReadOnlyStatementPolicy, DuplicateKeyPolicy, TruncatedText,
      TruncatedTextPadded, TrailingCommaText, EmptyText, EmptyObjectText, EmptyObjectTextTight }

(***************************************************************************)
(* File names, paths and object keys: strings are sequences of characters  *)
(***************************************************************************)

\* currentPolicyStr = null, sanitizeFilename() = null
Null == << "<null>" >>
\* An argument that was not passed, a value that is not a string.
Undefined == << "<undefined>" >>

UpperChars == << "A", "B", "C", "D", "E", "F", "G", "H", "I", "J", "K", "L", "M",
                 "N", "O", "P", "Q", "R", "S", "T", "U", "V", "W", "X", "Y", "Z" >>
LowerChars == << "a", "b", "c", "d", "e", "f", "g", "h", "i", "j", "k", "l", "m",
                 "n", "o", "p", "q", "r", "s", "t", "u", "v", "w", "x", "y", "z" >>
Digits == { "0", "1", "2", "3", "4", "5", "6", "7", "8", "9" }
Range(f) == { f[i] : i \in DOMAIN f }

\* The concatenation of a sequence of strings (halving, to keep the nesting shallow).
RECURSIVE Flatten(_)
Flatten(ss) ==
    IF ss = << >> THEN << >>
    ELSE IF Len(ss) = 1 THEN ss[1]
    ELSE LET h == Len(ss) \div 2
         IN  Flatten(SubSeq(ss, 1, h)) \o Flatten(SubSeq(ss, h + 1, Len(ss)))

\* Variant of toLowerCase: the letters keep their case.
toLowerCase_Keep(s) == s

\* String.prototype.toLowerCase
LowerChar(c) ==
    IF c \in Range(UpperChars)
    THEN LowerChars[CHOOSE i \in 1 .. 26 : UpperChars[i] = c]
    ELSE c
toLowerCase(s) == [i \in 1 .. Len(s) |-> LowerChar(s[i])]

\* .replace(/\s+/g, "_")
ReplaceSpaceRuns(s) ==
    LET starts == SelectSeq([i \in 1 .. Len(s) |-> i],
                            LAMBDA i : ~IsSpace(s[i]) \/ i = 1 \/ ~IsSpace(s[i - 1]))
    IN  [j \in 1 .. Len(starts) |-> IF IsSpace(s[starts[j]]) THEN "_" ELSE s[starts[j]]]

\* .replace(/[^a-zA-Z0-9_\-\.]/g, "_")
SafeChar(c) == c \in Range(UpperChars) \cup Range(LowerChars) \cup Digits \cup { "_", "-", "." }
ReplaceUnsafe(s) == [i \in 1 .. Len(s) |-> IF SafeChar(s[i]) THEN s[i] ELSE "_"]

\* Variant of StripLeadingDots: one leading dot is removed.
StripLeadingDots_One(s) == IF s # << >> /\ Head(s) = "." THEN Tail(s) ELSE s

\* .replace(/^\.+/, "")
RECURSIVE StripLeadingDots(_)
StripLeadingDots(s) == IF s # << >> /\ Head(s) = "." THEN StripLeadingDots(Tail(s)) ELSE s

\* .slice(0, n)
Slice0(s, n) == SubSeq(s, 1, IF Len(s) < n THEN Len(s) ELSE n)

MaxFilenameLen == 100

sanitizeFilename(raw) ==
    IF raw \in { Undefined, Null } THEN Null
    ELSE LET s == toLowerCase(Slice0(StripLeadingDots(ReplaceUnsafe(ReplaceSpaceRuns(trim(raw)))),
                                     MaxFilenameLen))
         IN  IF s = << >> THEN Null ELSE s

\* The outcome of schema.parse(v): the value, or ok = FALSE for the ZodError thrown.
Parsed(v) == [ok |-> TRUE, v |-> v]
ZodError == [ok |-> FALSE, v |-> Null]

\* Variant of filenameSchemaParse: the preprocessing by sanitizeFilename is left out.
filenameSchemaParse_Raw(v) ==
    IF v \in { Undefined, Null } \/ Len(v) < 1 THEN ZodError ELSE Parsed(v)

\* filenameSchema = z.preprocess(sanitizeFilename, z.string().min(1))
filenameSchemaParse(v) ==
    LET s == sanitizeFilename(v) IN
    IF s = Null \/ Len(s) < 1 THEN ZodError ELSE Parsed(s)

\* Variant of HasDotDot: parent traversal is not looked for.
HasDotDot_Never(p) == FALSE

\* p.includes("..")
HasDotDot(p) == \E i \in 1 .. Len(p) - 1 : p[i] = "." /\ p[i + 1] = "."

\* pathSchema
pathSchemaParse(p) ==
    IF p \in { Undefined, Null } THEN ZodError
    ELSE IF Len(p) < 1 THEN ZodError
    ELSE IF p[1] = "/" \/ "\\" \in Range(p) \/ HasDotDot(p) THEN ZodError
    ELSE Parsed(IF p[Len(p)] = "/" THEN p ELSE Append(p, "/"))

\* encodeURIComponent: the unreserved characters stay, the others become the
\* percent-encoded bytes of their UTF-8 form.
Unreserved(c) ==
    c \in Range(UpperChars) \cup Range(LowerChars) \cup Digits
          \cup { "-", "_", ".", "!", "~", "*", "'", "(", ")" }
PercentEncoded(c) ==
    CASE c = " " -> << "%", "2", "0" >>
      [] c = "\t" -> << "%", "0", "9" >>
      [] c = "\n" -> << "%", "0", "A" >>
      [] c = "/" -> << "%", "2", "F" >>
      [] c = "\\" -> << "%", "5", "C" >>
      [] c = "%" -> << "%", "2", "5" >>
      [] c = "#" -> << "%", "2", "3" >>
      [] c = "?" -> << "%", "3", "F" >>
      [] c = "+" -> << "%", "2", "B" >>
\* Variant of encodeURIComponent: only letters and digits stay as they are.
encodeURIComponent_AlnumOnly(s) ==
    Flatten([i \in 1 .. Len(s) |->
                IF s[i] \in Range(UpperChars) \cup Range(LowerChars) \cup Digits
                THEN << s[i] >> ELSE << "%", s[i] >>])

encodeURIComponent(s) ==
    Flatten([i \in 1 .. Len(s) |-> IF Unreserved(s[i]) THEN << s[i] >> ELSE PercentEncoded(s[i])])

\* path.split("/")
RECURSIVE SplitSlash(_, _)
SplitSlash(s, cur) ==
    IF s = << >> THEN << cur >>
    ELSE IF Head(s) = "/" THEN << cur >> \o SplitSlash(Tail(s), << >>)
    ELSE SplitSlash(Tail(s), Append(cur, Head(s)))

\* .join("/")
RECURSIVE JoinSlash(_)
JoinSlash(segs) ==
    IF segs = << >> THEN << >>
    ELSE IF Len(segs) = 1 THEN segs[1]
    ELSE segs[1] \o << "/" >> \o JoinSlash(Tail(segs))

\* Variant of encodePath: the empty segments are kept.
encodePath_KeepEmpty(path) ==
    LET segs == SplitSlash(path, << >>)
    IN  JoinSlash([i \in 1 .. Len(segs) |-> encodeURIComponent(segs[i])])

\* path.split("/").filter(Boolean).map(encodeURIComponent).join("/")
encodePath(path) ==
    LET segs == SelectSeq(SplitSlash(path, << >>), LAMBDA seg : seg # << >>)
    IN  JoinSlash([i \in 1 .. Len(segs) |-> encodeURIComponent(segs[i])])

\* Variant of getObjectKey: for a URL the raw filename is percent-encoded before
\* it goes through filenameSchema.
getObjectKey_EncodeFirst(filename, path, needEncodeFilename) ==
    LET name == IF needEncodeFilename /\ filename \notin { Undefined, Null }
                THEN filenameSchemaParse(encodeURIComponent(filename))
                ELSE filenameSchemaParse(filename)
        hasPath == path \notin { Undefined, Null, << >> }
        dir == IF hasPath THEN pathSchemaParse(path) ELSE Parsed(<< >>)
    IN  IF ~name.ok \/ ~dir.ok THEN ZodError
        ELSE Parsed(IF hasPath /\ encodePath(dir.v) # << >>
                    THEN encodePath(dir.v) \o << "/" >> \o name.v
                    ELSE name.v)

\* getObjectKey(filename, path, needEncodeFilename): the key, or the ZodError of
\* the first schema that rejects its input.
getObjectKey(filename, path, needEncodeFilename) ==
    LET name == filenameSchemaParse(filename) IN
    IF ~name.ok THEN ZodError
    ELSE LET safeName == IF needEncodeFilename THEN encodeURIComponent(name.v) ELSE name.v
             hasPath == path \notin { Undefined, Null, << >> }
             dir == IF hasPath THEN pathSchemaParse(path) ELSE Parsed(<< >>)
         IN  IF ~dir.ok THEN ZodError
             ELSE LET encodedPath == IF hasPath THEN encodePath(dir.v) ELSE << >>
                  IN  Parsed(IF encodedPath # << >>
                             THEN encodedPath \o << "/" >> \o safeName
                             ELSE safeName)

(***************************************************************************)
(* The configuration read from the environment when the module loads       *)
(***************************************************************************)

\* process.env[key] of a variable that is not set.
Unset == "<unset>"
\* What a call gives: its value, or ok = FALSE for the Error it throws.
Value(v) == [ok |-> TRUE, v |-> v]
Thrown == [ok |-> FALSE, v |-> "Error"]

\* getEnv(key): `if (!value) throw`.
getEnv(env, key) == IF env[key] = Unset \/ env[key] = "" THEN Thrown ELSE Value(env[key])

\* Number(text) for the texts an environment gives: a finite number, or NaN or
\* an infinity (finite = FALSE).
ToNumber(text) ==
    CASE text = "9000" -> [finite |-> TRUE, n |-> 9000]
      [] text = "0" -> [finite |-> TRUE, n |-> 0]
      [] text = " " -> [finite |-> TRUE, n |-> 0]
      [] text = "-1" -> [finite |-> TRUE, n |-> -1]
      [] text = "Infinity" -> [finite |-> FALSE, n |-> 1]
      [] OTHER -> [finite |-> FALSE, n |-> 0]

\* Variant of getPort: the number is returned unchecked.
getPort_Unchecked(env, key) ==
    IF ~getEnv(env, key).ok THEN Thrown ELSE Value(ToNumber(getEnv(env, key).v))

\* getPort(key): `if (!Number.isFinite(p) || p <= 0) throw`.
getPort(env, key) ==
    IF ~getEnv(env, key).ok THEN Thrown
    ELSE LET p == ToNumber(getEnv(env, key).v)
         IN  IF ~p.finite \/ p.n <= 0 THEN Thrown ELSE Value(p)

parseBool(value) == value = "true" \/ value = "1" \/ value = "yes"

\* The module's constants in the order they are read, each through its reader.
ConfigKeys ==
    << "MINIO_ENDPOINT", "MINIO_PORT", "MINIO_ACCESS_KEY", "MINIO_SECRET_KEY",
       "MINIO_USE_SSL", "MINIO_BUCKET" >>
ReadConfig(env, i) ==
    IF ConfigKeys[i] = "MINIO_PORT" THEN getPort(env, ConfigKeys[i])
    ELSE IF ConfigKeys[i] = "MINIO_USE_SSL"
    THEN IF getEnv(env, ConfigKeys[i]).ok
         THEN Value(parseBool(getEnv(env, ConfigKeys[i]).v)) ELSE Thrown
    ELSE getEnv(env, ConfigKeys[i])

\* An environment with every value set.
GoodEnv ==
    [MINIO_ENDPOINT |-> "localhost", MINIO_PORT |-> "9000", MINIO_ACCESS_KEY |-> "key",
     MINIO_SECRET_KEY |-> "secret", MINIO_USE_SSL |-> "true", MINIO_BUCKET |-> "bucket"]
\* The module before its top-level code ran, and after it ran to its end.
NotLoaded(env) == [pc |-> "start", env |-> env, client |-> FALSE, failedAt |-> "none"]
Loaded(env) == [pc |-> "loaded", env |-> env, client |-> TRUE, failedAt |-> "none"]

(***************************************************************************)
(* Validation of an upload: validateFilename, validatePath, validateFile   *)
(***************************************************************************)

\* validateFilename(input): the filename of the input through filenameSchema.
validateFilename(filename) == filenameSchemaParse(filename)

\* validatePath(input): the path of the input through pathSchema.
validatePath(path) == pathSchemaParse(path)

\* Variant of OptionalPath: a path that fails the path rule is kept as it is.
OptionalPath_Raw(path) == IF validatePath(path).ok THEN validatePath(path).v ELSE path

\* The optional path of validateUploadInput: `try { return validatePath(input) }
\* catch { return undefined }`.
OptionalPath(path) == IF validatePath(path).ok THEN validatePath(path).v ELSE Undefined

maxImageSize == 1048576

\* Byte buffers: one with the JPEG signature at both ends, one of zero bytes, one
\* of three bytes.
JpegBytes == << 255, 216, 0, 0, 255, 217 >>
ZeroBytes == << 0, 0, 0, 0, 0, 0 >>
ShortBytes == << 255, 216, 217 >>
\* arrayBuffer() rejects.
ReadError == << -1 >>

\* Variant of isJpegArrayBuffer: only the start of the buffer is looked at.
isJpegArrayBuffer_StartOnly(u8) ==
    IF Len(u8) < 4 THEN FALSE
    ELSE u8[1] = 255 /\ u8[2] = 216

isJpegArrayBuffer(u8) ==
    IF Len(u8) < 4 THEN FALSE
    ELSE /\ u8[1] = 255
         /\ u8[2] = 216
         /\ u8[Len(u8) - 1] = 255
         /\ u8[Len(u8)] = 217

\* A file-like payload: whether arrayBuffer is a function, the declared size and
\* MIME type (its part up to the slash, and the rest), and what successive calls
\* of arrayBuffer() give.
FileLike(fn, size, type, reads) ==
    [isObject |-> TRUE, fn |-> fn, size |-> size, type |-> type, reads |-> reads]
\* A payload that is not an object (the field is missing from the form).
NoFile ==
    [isObject |-> FALSE, fn |-> FALSE, size |-> 0, type |-> << >>, reads |-> << >>]
Jpeg == << "image/", "jpeg" >>
GoodFile == FileLike(TRUE, 10240, Jpeg, << JpegBytes, JpegBytes >>)
Files ==
    { GoodFile,
      FileLike(TRUE, 10240, Jpeg, << JpegBytes, ZeroBytes >>),
      FileLike(TRUE, 10240, Jpeg, << JpegBytes, ReadError >>),
      FileLike(TRUE, 10240, Jpeg, << ZeroBytes, ZeroBytes >>),
      FileLike(TRUE, 10240, Jpeg, << ShortBytes, ShortBytes >>),
      FileLike(TRUE, 10240, Jpeg, << ReadError, JpegBytes >>),
      FileLike(TRUE, maxImageSize + 1, Jpeg, << JpegBytes, JpegBytes >>),
      FileLike(TRUE, 10240, << "image/", "png" >>, << JpegBytes, JpegBytes >>),
      FileLike(TRUE, 10240, << "text/", "plain" >>, << JpegBytes, JpegBytes >>),
      FileLike(FALSE, 10240, Jpeg, << JpegBytes, JpegBytes >>),
      NoFile }

\* The allow-list of MIME types; fileSchema does not read it.
allowedImageTypes == { Jpeg }

\* fileSchema's object: `size: z.number().max(maxImageSize)` and
\* `type: z.string().refine((t) => t.startsWith("image/"))`.
FileFieldsOk(file) ==
    /\ file.isObject
    /\ file.size <= maxImageSize
    /\ file.type # << >> /\ file.type[1] = "image/"

\* Variant of FileContentOk: the refinement adds no issue whatever was read.
FileContentOk_Any(ab) == TRUE

\* fileSchema's superRefine once arrayBuffer() settled with `ab`: no issue is added.
FileContentOk(ab) == ab # ReadError /\ isJpegArrayBuffer(ab)

\* update_create.ts: the directories of the upload targets.
UPLOAD_DIRS == [table |-> << "/", "p", "a", "t", "h", "/", "t", "o", "/", "f", "o", "l", "d", "e", "r" >>]
\* UploadTargetSchema = z.enum(Object.keys(UPLOAD_DIRS))
UploadTargetSchemaParse(rawTarget) ==
    IF rawTarget \in DOMAIN UPLOAD_DIRS THEN Parsed(rawTarget) ELSE ZodError

(***************************************************************************)
(* The process: the store, the runs of ensureBucketExists, minioInit, the  *)
(* callers awaiting it, and uploadToMinio                                  *)
(***************************************************************************)

\* The policy texts the store may hold when the process starts or after another
\* actor wrote one.
StoreDocs == { desiredPolicyStr, ReorderedPolicy, WritablePolicy, TruncatedText }

\* Manual calls of the exported ensureBucketExists (run 0 is minioInit's own).
MaxManual == 1
\* Callers that await the exported minioInit promise.
MaxAwaiters == 2
\* Calls of uploadToMinio.
MaxUploads == 1
\* Calls of getFromMinio.
MaxFetches == 1
\* Calls of upload() and of validateUploadInput().
MaxRequests == 1
\* Length of the short strings a function is applied to, and how many times it is
\* applied to its own result.
MaxStringLen == 3
MaxApply == 2

\* Length of the byte buffers looked at for the JPEG signature.
MaxBufferLen == 6

\* Default validity of a signed URL, in seconds.
DefaultExpires == 60
\* Default arguments of ensureBucketExists.
DefaultRetries == 3
DefaultBaseDelayMs == 500

Runs == 0 .. MaxManual
ManualRuns == 1 .. MaxManual
Awaiters == 1 .. MaxAwaiters
Uploads == 1 .. MaxUploads
Fetches == 1 .. MaxFetches
Requests == 1 .. MaxRequests
\* The uploadToMinio call that request q makes, and all calls of uploadToMinio.
CallOf(q) == MaxUploads + q
AllUploads == 1 .. MaxUploads + MaxRequests
\* Arguments a manual call passes.
RetriesArgs == { -1, 0, 1 }
DelayArgs == { 100 }
\* Arguments of uploadToMinio.
UploadNames == { << "a", ".", "j", "p", "g" >>, << ".", "." >> }
UploadPaths == { Undefined, << "i", "m", "g" >>, << "/", "i", "m", "g" >> }

\* Arguments of the calls that build object keys: a name with an upper-case
\* letter and a space, a name of dots, a name longer than the limit; no path, a
\* path with a space, and paths the path rule refuses.
LongName == [i \in 1 .. MaxFilenameLen + 1 |-> "x"]
ObjectNames == { << "C", " ", "p", ".", "J" >>, << ".", "." >>, LongName }
ObjectPaths ==
    { Undefined, << "a", " ", "b" >>, << "/", "a" >>, << "a", "/", ".", "." >>,
      << "a", "\\", "b" >> }
ExpiresArgs == { DefaultExpires }

\* The bucket has no policy.
NoPolicy == << "<no policy>" >>
NoErr == [op |-> "none", n |-> 0]
\* The error a failed store call throws: the call and, for the check/create step,
\* the attempt it was made in.
Err(op, n) == [op |-> op, n |-> n]

VARIABLES
    bucketPresent,  \* the store: the bucket exists
    livePolicy,     \* the store: the bucket's policy text, or NoPolicy
    objects,        \* the store: the keys of the objects in the bucket
    run,            \* run[r]: the locals of one ensureBucketExists call and where it is suspended
    hist,           \* hist[r]: what the run has done so far (calls issued, sleeps, ...)
    minioInit,      \* the module-level promise: pending, fulfilled or rejected
    reconciled,     \* some run has resolved: bucket and policy were brought in order
    awaiter,        \* awaiter[a]: a caller awaiting minioInit and what it observed
    upload,         \* upload[u]: one uploadToMinio call
    aStr, bStr, eq, \* the arguments and the result of one policyEquals call
    fetch,          \* fetch[g]: one getFromMinio call
    req,            \* req[q]: one call of upload() or of validateUploadInput()
    input, output,  \* the arguments the calls are made with; the results of a function
                    \* applied to its own result
    config          \* the module's load: the environment, whether the client was made

storeVars == << bucketPresent, livePolicy, objects >>
polVars == << aStr, bStr, eq >>
fnVars == << input, output >>
apiVars == << fetch, req, fnVars >>
vars == << bucketPresent, livePolicy, objects, run, hist, minioInit, reconciled,
           awaiter, upload, aStr, bStr, eq, apiVars, config >>

IdleRun ==
    [pc |-> "idle", retries |-> DefaultRetries, baseDelayMs |-> DefaultBaseDelayMs,
     attempt |-> 0, currentPolicyStr |-> Null, err |-> NoErr]

NoHist ==
    [nCheck |-> 0, nGet |-> 0, nSet |-> 0, sleeps |-> << >>,
     confirmed |-> FALSE, okAttempt |-> 0, getFailed |-> FALSE,
     setOk |-> FALSE, startedClean |-> FALSE, made |-> FALSE]

IdleUpload ==
    [pc |-> "idle", filename |-> Undefined, path |-> Undefined, key |-> Null,
     exists |-> "none", initAtPut |-> "none", nPut |-> 0, safeName |-> Null]

IdleFetch ==
    [pc |-> "idle", filename |-> Undefined, path |-> Undefined, isPublic |-> FALSE,
     expires |-> DefaultExpires, exists |-> "none", key |-> Null, url |-> Null, nPresign |-> 0]

\* No function is applied by itself.
NoCall == input = [fn |-> "none", arg |-> Undefined] /\ output = << >>

NoBytes == << >>
IdleRequest ==
    [pc |-> "idle", entry |-> "none", target |-> "none", filename |-> Undefined,
     path |-> Undefined, file |-> NoFile, parsedName |-> Null, parsedPath |-> Undefined,
     nRead |-> 0, inspected |-> NoBytes, sent |-> NoBytes, validated |-> FALSE,
     failedAt |-> "none", result |-> "none", settled |-> "none"]

\* ---- ensureBucketExists, from one suspension point to the next ----

\* `for (...; attempt <= retries; ...)`: the loop test with the given attempt number.
\* Inside the loop the run issues bucketExists; past it, getBucketPolicy.
LoopTest(rn, h, attempt) ==
    IF attempt <= rn.retries
    THEN << [rn EXCEPT !.attempt = attempt, !.pc = "bucketExists"],
            [h EXCEPT !.nCheck = @ + 1] >>
    ELSE << [rn EXCEPT !.attempt = attempt, !.pc = "getBucketPolicy"],
            [h EXCEPT !.nGet = @ + 1] >>

\* `break`: the bucket was found or made in this attempt; on to getBucketPolicy.
Break(rn, h) ==
    << [rn EXCEPT !.pc = "getBucketPolicy"],
       [h EXCEPT !.confirmed = TRUE, !.okAttempt = rn.attempt, !.nGet = @ + 1] >>

\* Variant of Backoff: the same delay after every attempt.
Backoff_Constant(baseDelayMs, attempt) == baseDelayMs

\* The delay of the sleep after a failed attempt.
Backoff(baseDelayMs, attempt) == baseDelayMs * attempt

\* Variant of IsLastAttempt: gives up one attempt early.
IsLastAttempt_OffByOne(attempt, retries) == attempt >= retries - 1

\* `if (attempt === retries) throw err`
IsLastAttempt(attempt, retries) == attempt = retries

\* Variant of CatchCheck: the error is thrown again at once.
CatchCheck_Rethrow(rn, h, e) == << [rn EXCEPT !.pc = "rejected", !.err = e], h >>

\* `catch (err)` of the loop: rethrow on the last attempt, else sleep.
CatchCheck(rn, h, e) ==
    IF IsLastAttempt(rn.attempt, rn.retries)
    THEN << [rn EXCEPT !.pc = "rejected", !.err = e], h >>
    ELSE << [rn EXCEPT !.pc = "sleep"],
            [h EXCEPT !.sleeps = Append(@, Backoff(rn.baseDelayMs, rn.attempt))] >>

\* Variant of NeedsPolicyWrite: a bucket without a policy is left alone.
NeedsPolicyWrite_SkipsMissing(cur) ==
    cur # Null /\ cur # EmptyText /\ ~policyEquals(cur, desiredPolicyStr)

\* `!currentPolicyStr || !policyEquals(currentPolicyStr, desiredPolicyStr)`
NeedsPolicyWrite(cur) ==
    cur = Null \/ cur = EmptyText \/ ~policyEquals(cur, desiredPolicyStr)

\* After getBucketPolicy settled with cur as currentPolicyStr.
AfterGet(rn, h, cur) ==
    IF NeedsPolicyWrite(cur)
    THEN << [rn EXCEPT !.currentPolicyStr = cur, !.pc = "setBucketPolicy"],
            [h EXCEPT !.nSet = @ + 1] >>
    ELSE << [rn EXCEPT !.currentPolicyStr = cur, !.pc = "resolved"], h >>

\* Variant of CatchSet: the error is logged and the run carries on.
CatchSet_Swallow(rn, h, e) == << [rn EXCEPT !.pc = "resolved"], h >>

\* The catch around setBucketPolicy: log and rethrow.
CatchSet(rn, h, e) == << [rn EXCEPT !.pc = "rejected", !.err = e], h >>

Put(r, pair) ==
    /\ run' = [run EXCEPT ![r] = pair[1]]
    /\ hist' = [hist EXCEPT ![r] = pair[2]]

\* Remembers that a run resolved.
Resolves(pair) ==
    reconciled' = (reconciled \/ pair[1].pc = "resolved")

\* A manual call ensureBucketExists(retries, baseDelayMs).
EnsureBucketExists(r, retries, baseDelayMs) ==
    /\ r \in ManualRuns
    /\ run[r].pc = "idle"
    /\ \A q \in ManualRuns : q < r => run[q].pc # "idle"
    /\ Put(r, LoopTest([run[r] EXCEPT !.retries = retries, !.baseDelayMs = baseDelayMs],
                       [hist[r] EXCEPT !.startedClean = reconciled], 1))
    /\ UNCHANGED << config, storeVars, minioInit, reconciled, awaiter, upload, polVars, apiVars >>

\* client.bucketExists(bucket) answers.
BucketExistsReturns(r) ==
    /\ run[r].pc = "bucketExists"
    /\ IF bucketPresent
       THEN Put(r, Break(run[r], hist[r]))
       ELSE Put(r, << [run[r] EXCEPT !.pc = "makeBucket"], hist[r] >>)
    /\ UNCHANGED << config, storeVars, minioInit, reconciled, awaiter, upload, polVars, apiVars >>

\* client.bucketExists(bucket) throws (the store cannot be reached).
BucketExistsThrows(r) ==
    /\ run[r].pc = "bucketExists"
    /\ Put(r, CatchCheck(run[r], hist[r], Err("bucketExists", run[r].attempt)))
    /\ UNCHANGED << config, storeVars, minioInit, reconciled, awaiter, upload, polVars, apiVars >>

\* client.makeBucket(bucket, "") creates the bucket.
MakeBucketReturns(r) ==
    /\ run[r].pc = "makeBucket"
    /\ ~bucketPresent
    /\ bucketPresent' = TRUE
    /\ livePolicy' = NoPolicy
    /\ Put(r, Break(run[r], [hist[r] EXCEPT !.made = TRUE]))
    /\ UNCHANGED << config, objects, minioInit, reconciled, awaiter, upload, polVars, apiVars >>

\* client.makeBucket throws: the store cannot be reached, or the bucket is there
\* already (another run made it in between).
MakeBucketThrows(r) ==
    /\ run[r].pc = "makeBucket"
    /\ Put(r, CatchCheck(run[r], hist[r], Err("makeBucket", run[r].attempt)))
    /\ UNCHANGED << config, storeVars, minioInit, reconciled, awaiter, upload, polVars, apiVars >>

\* The backoff timer fires: attempt++ and the loop test.
SleepEnds(r) ==
    /\ run[r].pc = "sleep"
    /\ Put(r, LoopTest(run[r], hist[r], run[r].attempt + 1))
    /\ UNCHANGED << config, storeVars, minioInit, reconciled, awaiter, upload, polVars, apiVars >>

\* client.getBucketPolicy(bucket) answers with the policy text; a store that has
\* no policy for the bucket may answer with the empty string or with null.
GetBucketPolicyReturns(r) ==
    /\ run[r].pc = "getBucketPolicy"
    /\ bucketPresent
    /\ \E cur \in (IF livePolicy = NoPolicy THEN { EmptyText, Null } ELSE { livePolicy }) :
          LET pair == AfterGet(run[r], hist[r], cur)
          IN  Put(r, pair) /\ Resolves(pair)
    /\ UNCHANGED << config, storeVars, minioInit, awaiter, upload, polVars, apiVars >>

\* Variant of GetBucketPolicyThrows: the error of getBucketPolicy ends the run.
GetBucketPolicyThrows_Abort(r) ==
    /\ run[r].pc = "getBucketPolicy"
    /\ run' = [run EXCEPT ![r] = [@ EXCEPT !.pc = "rejected", !.err = Err("getBucketPolicy", 0)]]
    /\ hist' = [hist EXCEPT ![r].getFailed = TRUE]
    /\ UNCHANGED << config, bucketPresent, livePolicy, objects, minioInit, reconciled, awaiter, upload,
                    aStr, bStr, eq, apiVars >>

\* client.getBucketPolicy throws (no policy, no bucket, store unreachable):
\* currentPolicyStr = null.
GetBucketPolicyThrows(r) ==
    /\ run[r].pc = "getBucketPolicy"
    /\ Put(r, AfterGet(run[r], [hist[r] EXCEPT !.getFailed = TRUE], Null))
    /\ UNCHANGED << config, storeVars, minioInit, reconciled, awaiter, upload, polVars, apiVars >>

\* client.setBucketPolicy(bucket, desiredPolicyStr) succeeds.
SetBucketPolicyReturns(r) ==
    /\ run[r].pc = "setBucketPolicy"
    /\ bucketPresent
    /\ livePolicy' = desiredPolicyStr
    /\ LET pair == << [run[r] EXCEPT !.pc = "resolved"], [hist[r] EXCEPT !.setOk = TRUE] >>
       IN  Put(r, pair) /\ Resolves(pair)
    /\ UNCHANGED << config, bucketPresent, objects, minioInit, awaiter, upload, polVars, apiVars >>

\* client.setBucketPolicy throws (no such bucket, store unreachable): rethrown.
SetBucketPolicyThrows(r) ==
    /\ run[r].pc = "setBucketPolicy"
    /\ Put(r, CatchSet(run[r], hist[r], Err("setBucketPolicy", 0)))
    /\ UNCHANGED << config, storeVars, minioInit, reconciled, awaiter, upload, polVars, apiVars >>

\* ---- minioInit = ensureBucketExists().catch(...) ----

\* The handler of .catch: logs and rethrows.
CatchHandler(e) == [state |-> "rejected", reason |-> e]

\* Run 0 resolved: the chained promise is fulfilled.
MinioInitFulfilled ==
    /\ minioInit.state = "pending"
    /\ run[0].pc = "resolved"
    /\ minioInit' = [state |-> "fulfilled", reason |-> NoErr]
    /\ UNCHANGED << config, storeVars, run, hist, reconciled, awaiter, upload, polVars, apiVars >>

\* Run 0 rejected: the handler runs and decides the chained promise.
MinioInitCatch ==
    /\ minioInit.state = "pending"
    /\ run[0].pc = "rejected"
    /\ minioInit' = CatchHandler(run[0].err)
    /\ UNCHANGED << config, storeVars, run, hist, reconciled, awaiter, upload, polVars, apiVars >>

\* A caller's `await minioInit`: it resumes, once the promise has settled, with the
\* promise's outcome (callers resume in the order they awaited).
AwaitMinioInit(a) ==
    /\ awaiter[a].pc = "waiting"
    /\ \A b \in Awaiters : b < a => awaiter[b].pc # "waiting"
    /\ minioInit.state # "pending"
    /\ awaiter' = [awaiter EXCEPT ![a] = [pc |-> "resumed", observed |-> minioInit]]
    /\ UNCHANGED << config, storeVars, run, hist, minioInit, reconciled, upload, polVars, apiVars >>

\* ---- uploadToMinio ----

\* Variant of StartUpload: the call first waits for minioInit to be fulfilled.
StartUpload_AfterInit(u, filename, path) ==
    /\ minioInit.state = "fulfilled"
    /\ upload' = [upload EXCEPT ![u] = [@ EXCEPT !.pc = "bucketExists",
                                                   !.filename = filename, !.path = path]]

\* uploadToMinio(bucket, filename, buffer, path): runs into assertBucketExists,
\* which issues bucketExists.
StartUpload(u, filename, path) ==
    upload' = [upload EXCEPT ![u] = [@ EXCEPT !.pc = "bucketExists",
                                                !.filename = filename, !.path = path]]

UploadToMinio(u, filename, path) ==
    /\ upload[u].pc = "idle"
    /\ \A v \in Uploads : v < u => upload[v].pc # "idle"
    /\ StartUpload(u, filename, path)
    /\ UNCHANGED << config, storeVars, run, hist, minioInit, reconciled, awaiter, polVars, apiVars >>

\* Variant of AssertBucketExistsThrows: a missing bucket is not an error.
AssertBucketExistsThrows_Never(exists) == FALSE

\* assertBucketExists: `if (!exists) throw new Error(...)`
AssertBucketExistsThrows(exists) == ~exists

\* The answer of bucketExists as the caller's history keeps it.
Answer(exists) == IF exists THEN "true" ELSE "false"

\* bucketExists answered.  A missing bucket makes assertBucketExists throw; else the
\* arguments of putObject are evaluated (getObjectKey may throw) and putObject is issued.
\* safeName is getObjectKey's constant of that name: the filename through
\* filenameSchema, which is computed before the path is looked at.
UploadBucketExistsReturns(u) ==
    /\ upload[u].pc = "bucketExists"
    /\ LET k == getObjectKey(upload[u].filename, upload[u].path, FALSE)
           name == IF AssertBucketExistsThrows(bucketPresent) THEN Null
                   ELSE filenameSchemaParse(upload[u].filename).v
       IN
       upload' = [upload EXCEPT ![u] =
           IF AssertBucketExistsThrows(bucketPresent) \/ ~k.ok
           THEN [@ EXCEPT !.pc = "rejected", !.exists = Answer(bucketPresent),
                          !.safeName = name]
           ELSE [@ EXCEPT !.pc = "putObject", !.key = k.v, !.nPut = @ + 1,
                          !.exists = Answer(bucketPresent),
                          !.initAtPut = minioInit.state, !.safeName = name]]
    /\ UNCHANGED << config, storeVars, run, hist, minioInit, reconciled, awaiter, polVars, apiVars >>

UploadBucketExistsThrows(u) ==
    /\ upload[u].pc = "bucketExists"
    /\ upload' = [upload EXCEPT ![u] = [@ EXCEPT !.pc = "rejected", !.exists = "threw"]]
    /\ UNCHANGED << config, storeVars, run, hist, minioInit, reconciled, awaiter, polVars, apiVars >>

\* client.putObject stores the object.
PutObjectReturns(u) ==
    /\ upload[u].pc = "putObject"
    /\ bucketPresent
    /\ objects' = objects \cup { upload[u].key }
    /\ upload' = [upload EXCEPT ![u].pc = "resolved"]
    /\ UNCHANGED << config, bucketPresent, livePolicy, run, hist, minioInit, reconciled,
                    awaiter, polVars, apiVars >>

PutObjectThrows(u) ==
    /\ upload[u].pc = "putObject"
    /\ upload' = [upload EXCEPT ![u].pc = "rejected"]
    /\ UNCHANGED << config, storeVars, run, hist, minioInit, reconciled, awaiter, polVars, apiVars >>

\* ---- getFromMinio ----

\* `http://localhost:9000/${bucket}/${key}`
PublicUrl(key) == << "http://localhost:9000/", "bucket", "/" >> \o key

\* The URL client.presignedGetObject(bucket, key, expires) answers with: the
\* object's address and a signature that is good for `expires` seconds.
PresignedUrl(key, expires) == PublicUrl(key) \o << "?X-Amz-Expires=", expires, "&X-Amz-Signature=" >>

\* getFromMinio(bucket, filename, path, isPublic, expires): runs into
\* assertBucketExists, which issues bucketExists.
GetFromMinio(g, filename, path, isPublic, expires) ==
    /\ fetch[g].pc = "idle"
    /\ \A h \in Fetches : h < g => fetch[h].pc # "idle"
    /\ fetch' = [fetch EXCEPT ![g] = [@ EXCEPT !.pc = "bucketExists", !.filename = filename,
                                               !.path = path, !.isPublic = isPublic,
                                               !.expires = expires]]
    /\ UNCHANGED << config, storeVars, run, hist, minioInit, reconciled, awaiter, upload, polVars, req, fnVars >>

\* Variant of FetchBucketExistsReturns: the public URL is built whatever
\* bucketExists answered.
FetchBucketExistsReturns_PublicUnchecked(g) ==
    /\ fetch[g].pc = "bucketExists"
    /\ LET f == fetch[g]
           k == getObjectKey(f.filename, f.path, f.isPublic)
       IN  fetch' = [fetch EXCEPT ![g] =
               IF (~f.isPublic /\ ~bucketPresent) \/ ~k.ok
               THEN [@ EXCEPT !.pc = "rejected", !.exists = Answer(bucketPresent)]
               ELSE IF f.isPublic
               THEN [@ EXCEPT !.pc = "resolved", !.exists = Answer(bucketPresent),
                              !.key = k.v, !.url = PublicUrl(k.v)]
               ELSE [@ EXCEPT !.pc = "presignedGetObject", !.exists = Answer(bucketPresent),
                              !.key = k.v, !.nPresign = @ + 1]]
    /\ UNCHANGED << config, storeVars, run, hist, minioInit, reconciled, awaiter, upload, polVars, req, fnVars >>

\* bucketExists answered.  A missing bucket makes assertBucketExists throw; else the
\* public URL is built and returned, or presignedGetObject is issued with the
\* storage form of the key (getObjectKey may throw in both branches).
FetchBucketExistsReturns(g) ==
    /\ fetch[g].pc = "bucketExists"
    /\ LET f == fetch[g]
           k == getObjectKey(f.filename, f.path, f.isPublic)
       IN  fetch' = [fetch EXCEPT ![g] =
               IF AssertBucketExistsThrows(bucketPresent) \/ ~k.ok
               THEN [@ EXCEPT !.pc = "rejected", !.exists = Answer(bucketPresent)]
               ELSE IF f.isPublic
               THEN [@ EXCEPT !.pc = "resolved", !.exists = Answer(bucketPresent),
                              !.key = k.v, !.url = PublicUrl(k.v)]
               ELSE [@ EXCEPT !.pc = "presignedGetObject", !.exists = Answer(bucketPresent),
                              !.key = k.v, !.nPresign = @ + 1]]
    /\ UNCHANGED << config, storeVars, run, hist, minioInit, reconciled, awaiter, upload, polVars, req, fnVars >>

FetchBucketExistsThrows(g) ==
    /\ fetch[g].pc = "bucketExists"
    /\ fetch' = [fetch EXCEPT ![g] = [@ EXCEPT !.pc = "rejected", !.exists = "threw"]]
    /\ UNCHANGED << config, storeVars, run, hist, minioInit, reconciled, awaiter, upload, polVars, req, fnVars >>

\* client.presignedGetObject answers with the signed URL.
PresignedGetObjectReturns(g) ==
    /\ fetch[g].pc = "presignedGetObject"
    /\ fetch' = [fetch EXCEPT ![g] = [@ EXCEPT !.pc = "resolved",
                                               !.url = PresignedUrl(fetch[g].key, fetch[g].expires)]]
    /\ UNCHANGED << config, storeVars, run, hist, minioInit, reconciled, awaiter, upload, polVars, req, fnVars >>

PresignedGetObjectThrows(g) ==
    /\ fetch[g].pc = "presignedGetObject"
    /\ fetch' = [fetch EXCEPT ![g].pc = "rejected"]
    /\ UNCHANGED << config, storeVars, run, hist, minioInit, reconciled, awaiter, upload, polVars, req, fnVars >>

\* ---- validateUploadInput and upload() ----

\* Variant of CatchUpload: the error is logged and thrown again.
CatchUpload_Rethrow(rq) == [rq EXCEPT !.pc = "returned", !.settled = "rejected"]

\* upload(): `catch (err) { log.error(...); return { ok: false, error: "Upload error" } }`
CatchUpload(rq) == [rq EXCEPT !.pc = "returned", !.result = "error", !.settled = "resolved"]

\* An error thrown at the named step: upload() catches it, validateUploadInput()
\* lets it go to its caller.
Throw(rq, step) ==
    IF rq.entry = "upload"
    THEN CatchUpload([rq EXCEPT !.failedAt = step])
    ELSE [rq EXCEPT !.failedAt = step, !.pc = "returned", !.settled = "rejected"]

\* validateUploadInput up to its await: validateFilename, the optional path, and
\* fileSchema.parseAsync up to the call of arrayBuffer().  Whether the refinement
\* that reads the bytes runs when `size` or `type` already failed is up to the
\* schema library: both are possible.
ValidationStarts(rq) ==
    LET name == validateFilename(rq.filename)
        named == [rq EXCEPT !.parsedName = name.v, !.parsedPath = OptionalPath(rq.path)]
        reading == [named EXCEPT !.pc = "validateFile", !.nRead = @ + 1]
    IN  IF ~name.ok THEN { Throw(rq, "filename") }
        ELSE IF ~rq.file.isObject THEN { Throw(named, "file") }
        ELSE IF ~rq.file.fn THEN { Throw(named, "file") }
        ELSE IF ~FileFieldsOk(rq.file) THEN { Throw(named, "file"), reading }
        ELSE { reading }

\* A direct call validateUploadInput({ filename, path, file }).
ValidateUploadInput(q, filename, path, file) ==
    /\ req[q].pc = "idle"
    /\ \A o \in Requests : o < q => req[o].pc # "idle"
    /\ \E next \in ValidationStarts([req[q] EXCEPT !.entry = "validate", !.filename = filename,
                                                     !.path = path, !.file = file]) :
          req' = [req EXCEPT ![q] = next]
    /\ UNCHANGED << config, storeVars, run, hist, minioInit, reconciled, awaiter, upload, polVars, fetch, fnVars >>

\* upload(rawTarget, filename, file) up to its first await.
Upload(q, rawTarget, filename, file) ==
    /\ req[q].pc = "idle"
    /\ \A o \in Requests : o < q => req[o].pc # "idle"
    /\ LET rq == [req[q] EXCEPT !.entry = "upload", !.target = rawTarget,
                                !.filename = filename, !.file = file]
           target == UploadTargetSchemaParse(rawTarget)
       IN  IF ~target.ok
           THEN req' = [req EXCEPT ![q] = Throw(rq, "target")]
           ELSE \E next \in ValidationStarts([rq EXCEPT !.path = UPLOAD_DIRS[target.v]]) :
                   req' = [req EXCEPT ![q] = next]
    /\ UNCHANGED << config, storeVars, run, hist, minioInit, reconciled, awaiter, upload, polVars, fetch, fnVars >>

\* The arrayBuffer() call of fileSchema's refinement settled: validateUploadInput
\* returns or throws; upload() goes on to `await parsed.file.arrayBuffer()`.
ValidateFileSettles(q) ==
    /\ req[q].pc = "validateFile"
    /\ LET ab == req[q].file.reads[1]
           seen == [req[q] EXCEPT !.inspected = ab]
       IN  req' = [req EXCEPT ![q] =
               IF ~(FileFieldsOk(seen.file) /\ FileContentOk(ab)) THEN Throw(seen, "file")
               ELSE IF seen.entry = "upload"
               THEN [seen EXCEPT !.validated = TRUE, !.pc = "arrayBuffer", !.nRead = @ + 1]
               ELSE [seen EXCEPT !.validated = TRUE, !.pc = "returned", !.settled = "resolved"]]
    /\ UNCHANGED << config, storeVars, run, hist, minioInit, reconciled, awaiter, upload, polVars, fetch, fnVars >>

\* upload(): the second arrayBuffer() settled; uploadToMinio is called with
\* `${parsed.filename}.jpg` and the target's directory.
ArrayBufferSettles(q) ==
    /\ req[q].pc = "arrayBuffer"
    /\ LET ab == req[q].file.reads[2] IN
       IF ab = ReadError
       THEN /\ req' = [req EXCEPT ![q] = Throw(req[q], "arrayBuffer")]
            /\ UNCHANGED upload
       ELSE /\ req' = [req EXCEPT ![q] = [@ EXCEPT !.sent = ab, !.pc = "uploadToMinio"]]
            /\ StartUpload(CallOf(q), req[q].parsedName \o << ".", "j", "p", "g" >>, req[q].path)
    /\ UNCHANGED << config, storeVars, run, hist, minioInit, reconciled, awaiter, polVars, fetch, fnVars >>

\* upload(): uploadToMinio settled: `return { ok: true }`, or the catch.
UploadToMinioSettles(q) ==
    /\ req[q].pc = "uploadToMinio"
    /\ upload[CallOf(q)].pc \in { "resolved", "rejected" }
    /\ req' = [req EXCEPT ![q] =
           IF upload[CallOf(q)].pc = "resolved"
           THEN [@ EXCEPT !.pc = "returned", !.result = "ok", !.settled = "resolved"]
           ELSE Throw(@, "uploadToMinio")]
    /\ UNCHANGED << config, storeVars, run, hist, minioInit, reconciled, awaiter, upload, polVars, fetch, fnVars >>

\* ---- sanitizeFilename and validateFilename applied to their own results ----

\* What the next application gets: the argument, then the last result.
NextArg == IF output = << >> THEN input.arg ELSE output[Len(output)]

SanitizeFilename ==
    /\ input.fn = "sanitizeFilename"
    /\ Len(output) < MaxApply
    /\ output' = Append(output, sanitizeFilename(NextArg))
    /\ UNCHANGED << config, storeVars, run, hist, minioInit, reconciled, awaiter, upload, polVars,
                    fetch, req, input >>

\* validateFilename throws for a rejected input: there is no result to go on with.
ValidateFilename ==
    /\ input.fn = "validateFilename"
    /\ Len(output) < MaxApply
    /\ IF output = << >> THEN TRUE ELSE output[Len(output)].ok
    /\ output' = Append(output, validateFilename(IF output = << >> THEN NextArg ELSE NextArg.v))
    /\ UNCHANGED << config, storeVars, run, hist, minioInit, reconciled, awaiter, upload, polVars,
                    fetch, req, input >>

\* validatePath throws for a rejected input: there is no result to go on with.
ValidatePath ==
    /\ input.fn = "validatePath"
    /\ Len(output) < MaxApply
    /\ IF output = << >> THEN TRUE ELSE output[Len(output)].ok
    /\ output' = Append(output, validatePath(IF output = << >> THEN NextArg ELSE NextArg.v))
    /\ UNCHANGED << config, storeVars, run, hist, minioInit, reconciled, awaiter, upload, polVars,
                    fetch, req, input >>

\* getObjectKey(filename, path) as uploadToMinio calls it, then
\* getObjectKey(filename, path, true) as getFromMinio calls it.
GetObjectKey ==
    /\ input.fn = "getObjectKey"
    /\ Len(output) < 2
    /\ output' = Append(output, getObjectKey(input.arg[1], input.arg[2], Len(output) = 1))
    /\ UNCHANGED << config, storeVars, run, hist, minioInit, reconciled, awaiter, upload, polVars,
                    fetch, req, input >>

IsJpegArrayBuffer ==
    /\ input.fn = "isJpegArrayBuffer"
    /\ output = << >>
    /\ output' = << isJpegArrayBuffer(input.arg) >>
    /\ UNCHANGED << config, storeVars, run, hist, minioInit, reconciled, awaiter, upload, polVars,
                    fetch, req, input >>

\* ---- the module's top-level code, which runs in one go ----

\* The constants are read in order; the first reader that throws ends the load.
\* Otherwise the client is constructed (its constructor may reject the options)
\* and ensureBucketExists() runs up to its first await.
LoadModule ==
    /\ config.pc = "start"
    /\ LET failing == { i \in DOMAIN ConfigKeys : ~ReadConfig(config.env, i).ok } IN
       IF failing # {}
       THEN /\ config' = [config EXCEPT !.pc = "threw",
                             !.failedAt = ConfigKeys[CHOOSE i \in failing : \A j \in failing : i <= j]]
            /\ UNCHANGED << run, hist >>
       ELSE \/ /\ config' = [config EXCEPT !.pc = "threw", !.failedAt = "Client"]
               /\ UNCHANGED << run, hist >>
            \/ /\ config' = Loaded(config.env)
               /\ Put(0, LoopTest(IdleRun, NoHist, 1))
    /\ UNCHANGED << storeVars, minioInit, reconciled, awaiter, upload, polVars, apiVars >>

\* ---- one policyEquals call ----

Compare ==
    /\ eq = "none"
    /\ eq' = IF policyEquals(aStr, bStr) THEN "true" ELSE "false"
    /\ UNCHANGED << config, storeVars, run, hist, minioInit, reconciled, awaiter, upload,
                    aStr, bStr, apiVars >>

\* ---- the specifications ----

\* Module load: ensureBucketExists() has run up to its first await, minioInit is
\* pending.  The store is in any state.
InitProcess ==
    /\ objects = {}
    /\ LET first == LoopTest(IdleRun, NoHist, 1) IN
       /\ run = [r \in Runs |-> IF r = 0 THEN first[1] ELSE IdleRun]
       /\ hist = [r \in Runs |-> IF r = 0 THEN first[2] ELSE NoHist]
    /\ minioInit = [state |-> "pending", reason |-> NoErr]
    /\ reconciled = FALSE
    /\ awaiter = [a \in Awaiters |-> [pc |-> "waiting", observed |-> minioInit]]
    /\ upload = [u \in AllUploads |-> IdleUpload]
    /\ fetch = [g \in Fetches |-> IdleFetch]
    /\ req = [q \in Requests |-> IdleRequest]
    /\ config = Loaded(GoodEnv)

Init ==
    /\ bucketPresent \in BOOLEAN
    /\ livePolicy \in StoreDocs \cup {NoPolicy}
    /\ ~bucketPresent => livePolicy = NoPolicy
    /\ InitProcess
    /\ aStr = EmptyText /\ bStr = EmptyText /\ eq = "none"
    /\ NoCall

\* The steps of the runs of ensureBucketExists against a store that may fail, and
\* the settling of minioInit.
NextBoot ==
    \/ \E r \in Runs : BucketExistsReturns(r)
    \/ \E r \in Runs : BucketExistsThrows(r)
    \/ \E r \in Runs : MakeBucketReturns(r)
    \/ \E r \in Runs : MakeBucketThrows(r)
    \/ \E r \in Runs : SleepEnds(r)
    \/ \E r \in Runs : GetBucketPolicyReturns(r)
    \/ \E r \in Runs : GetBucketPolicyThrows(r)
    \/ \E r \in Runs : SetBucketPolicyReturns(r)
    \/ \E r \in Runs : SetBucketPolicyThrows(r)
    \/ MinioInitFulfilled
    \/ MinioInitCatch

\* The bootstrap: minioInit's run and the manual calls of ensureBucketExists.
Next ==
    \/ \E r \in ManualRuns, n \in RetriesArgs, d \in DelayArgs : EnsureBucketExists(r, n, d)
    \/ NextBoot

Spec == Init /\ [][Next]_vars

\* The bootstrap with callers awaiting minioInit.
NextAwait ==
    \/ Next
    \/ \E a \in Awaiters : AwaitMinioInit(a)

SpecAwait == Init /\ [][NextAwait]_vars

\* minioInit's run with callers of uploadToMinio.
NextUpload ==
    \/ NextBoot
    \/ \E u \in Uploads, f \in UploadNames, p \in UploadPaths : UploadToMinio(u, f, p)
    \/ \E u \in Uploads : UploadBucketExistsReturns(u)
    \/ \E u \in Uploads : UploadBucketExistsThrows(u)
    \/ \E u \in Uploads : PutObjectReturns(u)
    \/ \E u \in Uploads : PutObjectThrows(u)

SpecUpload == Init /\ [][NextUpload]_vars

\* minioInit's run with callers of uploadToMinio and of getFromMinio (for a signed
\* URL), all about the object img/a.jpg.
NextConcurrent ==
    \/ NextBoot
    \/ \E u \in Uploads : UploadToMinio(u, << "a", ".", "j", "p", "g" >>, << "i", "m", "g" >>)
    \/ \E u \in Uploads : UploadBucketExistsReturns(u)
    \/ \E u \in Uploads : UploadBucketExistsThrows(u)
    \/ \E u \in Uploads : PutObjectReturns(u)
    \/ \E u \in Uploads : PutObjectThrows(u)
    \/ \E g \in Fetches :
          GetFromMinio(g, << "a", ".", "j", "p", "g" >>, << "i", "m", "g" >>, FALSE, DefaultExpires)
    \/ \E g \in Fetches : FetchBucketExistsReturns(g)
    \/ \E g \in Fetches : FetchBucketExistsThrows(g)
    \/ \E g \in Fetches : PresignedGetObjectReturns(g)
    \/ \E g \in Fetches : PresignedGetObjectThrows(g)

SpecConcurrent == Init /\ [][NextConcurrent]_vars

\* minioInit's run and manual calls ensureBucketExists() with the default
\* arguments, against a healthy store that has no bucket yet: makeBucket fails
\* only because the bucket is there, getBucketPolicy only because there is no
\* policy, and every other call succeeds.
InitRace ==
    /\ bucketPresent = FALSE
    /\ livePolicy = NoPolicy
    /\ InitProcess
    /\ aStr = EmptyText /\ bStr = EmptyText /\ eq = "none"
    /\ NoCall

NextRace ==
    \/ \E r \in ManualRuns : EnsureBucketExists(r, DefaultRetries, DefaultBaseDelayMs)
    \/ \E r \in Runs : BucketExistsReturns(r)
    \/ \E r \in Runs : MakeBucketReturns(r)
    \/ \E r \in Runs : bucketPresent /\ MakeBucketThrows(r)
    \/ \E r \in Runs : SleepEnds(r)
    \/ \E r \in Runs : GetBucketPolicyReturns(r)
    \/ \E r \in Runs : livePolicy = NoPolicy /\ GetBucketPolicyThrows(r)
    \/ \E r \in Runs : SetBucketPolicyReturns(r)
    \/ MinioInitFulfilled

SpecRace == InitRace /\ [][NextRace]_vars

\* A store whose bucket is there or not, and no call made yet.
InitStore ==
    /\ bucketPresent \in BOOLEAN
    /\ livePolicy = NoPolicy
    /\ InitProcess
    /\ aStr = EmptyText /\ bStr = EmptyText /\ eq = "none"
    /\ output = << >>

\* The calls of one behaviour are about one object: the same filename and path.
InitObjects ==
    /\ InitStore
    /\ input \in [fn : { "object" }, arg : ObjectNames \X ObjectPaths]

NextObjects ==
    \/ \E u \in Uploads : UploadToMinio(u, input.arg[1], input.arg[2])
    \/ \E u \in Uploads : UploadBucketExistsReturns(u)
    \/ \E u \in Uploads : UploadBucketExistsThrows(u)
    \/ \E u \in Uploads : PutObjectReturns(u)
    \/ \E u \in Uploads : PutObjectThrows(u)
    \/ \E g \in Fetches, pub \in BOOLEAN, e \in ExpiresArgs :
          GetFromMinio(g, input.arg[1], input.arg[2], pub, e)
    \/ \E g \in Fetches : FetchBucketExistsReturns(g)
    \/ \E g \in Fetches : FetchBucketExistsThrows(g)
    \/ \E g \in Fetches : PresignedGetObjectReturns(g)
    \/ \E g \in Fetches : PresignedGetObjectThrows(g)

SpecObjects == InitObjects /\ [][NextObjects]_vars

\* Arguments of upload() and validateUploadInput().
TargetArgs == { "table", "other" }
RequestNames ==
    { << "C", " ", "p" >>, << ".", "." >>, Undefined, [i \in 1 .. MaxFilenameLen - 2 |-> "x"] }
RequestPaths == { Undefined, << "i", "m", "g" >>, << "/", "i", "m", "g" >> }

\* Calls of upload() and validateUploadInput(), beside direct calls of
\* uploadToMinio, against a store whose bucket is there or not.  The requests of
\* one behaviour come with the same filename and payload.
InitAction ==
    /\ InitStore
    /\ input \in [fn : { "upload" }, arg : RequestNames \X Files]

NextAction ==
    \/ \E q \in Requests, t \in TargetArgs : Upload(q, t, input.arg[1], input.arg[2])
    \/ \E q \in Requests, p \in RequestPaths :
          ValidateUploadInput(q, input.arg[1], p, input.arg[2])
    \/ \E q \in Requests : ValidateFileSettles(q)
    \/ \E q \in Requests : ArrayBufferSettles(q)
    \/ \E q \in Requests : UploadToMinioSettles(q)
    \/ \E u \in Uploads : UploadToMinio(u, << "a", ".", "j", "p", "g" >>, << "i", "m", "g" >>)
    \/ \E u \in AllUploads : UploadBucketExistsReturns(u)
    \/ \E u \in AllUploads : UploadBucketExistsThrows(u)
    \/ \E u \in AllUploads : PutObjectReturns(u)
    \/ \E u \in AllUploads : PutObjectThrows(u)

SpecAction == InitAction /\ [][NextAction]_vars

\* Filenames: every string of up to MaxStringLen of these characters, names
\* around the length limit, and a value that is not a string.
SampleChars == { "A", "a", " ", ".", "!", "_" }
ShortStrings == UNION { [1 .. n -> SampleChars] : n \in 0 .. MaxStringLen }
LongNames ==
    { LongName,
      << ".", "." >> \o LongName,
      << " " >> \o LongName \o << " " >>,
      [i \in 1 .. MaxFilenameLen + 1 |-> IF i >= MaxFilenameLen THEN "." ELSE "X"],
      [i \in 1 .. MaxFilenameLen + 2 |-> IF i \in { 50, 51 } THEN " " ELSE "x"] }
FilenameArgs == ShortStrings \cup LongNames \cup { Undefined }

\* sanitizeFilename and validateFilename on every filename, and again on the result.
InitFilename ==
    /\ bucketPresent = FALSE
    /\ livePolicy = NoPolicy
    /\ InitProcess
    /\ aStr = EmptyText /\ bStr = EmptyText /\ eq = "none"
    /\ input \in [fn : { "sanitizeFilename", "validateFilename" }, arg : FilenameArgs]
    /\ output = << >>

NextFilename == SanitizeFilename \/ ValidateFilename

SpecFilename == InitFilename /\ [][NextFilename]_vars

\* Paths: every string of up to MaxStringLen of these characters, and a value that
\* is not a string.
PathChars == { "a", "/", "\\", ".", " " }
PathArgs == UNION { [1 .. n -> PathChars] : n \in 0 .. MaxStringLen } \cup { Undefined }

\* The filenames and paths a key is built from.
KeyNames ==
    { << "a", ".", "j", "p", "g" >>, << "C", " ", "p" >>, << " ", "a", " ", " ", "b" >>,
      << ".", "." >>, Undefined }
KeyPaths == PathArgs \cup { << "f", "o", "l", "d", "e", "r" >> }

\* Byte buffers: every sequence of up to MaxBufferLen of the bytes 00, FF, D8, D9.
ByteValues == { 0, 255, 216, 217 }
Buffers == UNION { [1 .. n -> ByteValues] : n \in 0 .. MaxBufferLen }

\* The functions of the key and of the validation, each applied to its inputs.
InitFunctions ==
    /\ bucketPresent = FALSE
    /\ livePolicy = NoPolicy
    /\ InitProcess
    /\ aStr = EmptyText /\ bStr = EmptyText /\ eq = "none"
    /\ \/ input \in [fn : { "validatePath" }, arg : PathArgs]
       \/ input \in [fn : { "getObjectKey" }, arg : KeyNames \X KeyPaths]
       \/ input \in [fn : { "isJpegArrayBuffer" }, arg : Buffers]
    /\ output = << >>

NextFunctions ==
    \/ ValidatePath
    \/ GetObjectKey
    \/ IsJpegArrayBuffer

SpecFunctions == InitFunctions /\ [][NextFunctions]_vars

\* The values an environment may give each variable.
EnvValues == { Unset, "", "x" }
PortValues == { Unset, "", "9000", "0", "-1", " ", "abc", "Infinity" }
BoolValues == { Unset, "", "true", "no" }
Envs ==
    [MINIO_ENDPOINT : EnvValues, MINIO_PORT : PortValues, MINIO_ACCESS_KEY : EnvValues,
     MINIO_SECRET_KEY : EnvValues, MINIO_USE_SSL : BoolValues, MINIO_BUCKET : EnvValues]

\* The module is about to load under any environment, against a store without
\* the bucket; nothing has run yet.
InitLoad ==
    /\ bucketPresent = FALSE
    /\ livePolicy = NoPolicy
    /\ objects = {}
    /\ run = [r \in Runs |-> IdleRun]
    /\ hist = [r \in Runs |-> NoHist]
    /\ minioInit = [state |-> "pending", reason |-> NoErr]
    /\ reconciled = FALSE
    /\ awaiter = [a \in Awaiters |-> [pc |-> "waiting", observed |-> minioInit]]
    /\ upload = [u \in AllUploads |-> IdleUpload]
    /\ fetch = [g \in Fetches |-> IdleFetch]
    /\ req = [q \in Requests |-> IdleRequest]
    /\ aStr = EmptyText /\ bStr = EmptyText /\ eq = "none"
    /\ NoCall
    /\ config \in { NotLoaded(env) : env \in Envs }

\* The load, then the steps of minioInit's run.
NextLoad ==
    \/ LoadModule
    \/ NextBoot

SpecLoad == InitLoad /\ [][NextLoad]_vars

\* policyEquals on every pair of the policy texts.
InitPolicy ==
    /\ bucketPresent = FALSE
    /\ livePolicy = NoPolicy
    /\ InitProcess
    /\ aStr \in Docs /\ bStr \in Docs /\ eq = "none"
    /\ NoCall

NextPolicy == Compare

SpecPolicy == InitPolicy /\ [][NextPolicy]_vars


(***************************************************************************)
(* Properties                                                              *)
(***************************************************************************)

\* Structural equality of two JSON values: same kind, same members under the same
\* keys whatever their order, same elements in the same order.
RECURSIVE StructEqual(_, _)
StructEqual(x, y) ==
    /\ x.t = y.t
    /\ CASE x.t = "str" -> x.s = y.s
         [] x.t = "arr" -> /\ Len(x.a) = Len(y.a)
                           /\ \A i \in 1 .. Len(x.a) : StructEqual(x.a[i], y.a[i])
         [] x.t = "obj" -> /\ DOMAIN x.o = DOMAIN y.o
                           /\ \A k \in DOMAIN x.o : StructEqual(x.o[k], y.o[k])

\* Two texts that are the same JSON document.
SameDocument(a, b) ==
    /\ JSONparse(a).ok
    /\ JSONparse(b).ok
    /\ StructEqual(JSONparse(a).v, JSONparse(b).v)

Started(r) == run[r].pc # "idle"
Finished(r) == run[r].pc \in { "resolved", "rejected" }
\* The run has got its answer from getBucketPolicy.
PastGet(r) == run[r].pc \in { "setBucketPolicy", "resolved", "rejected" } /\ hist[r].nGet = 1
\* What a caller awaiting the run's promise sees.
Outcome(r) ==
    IF run[r].pc = "resolved" THEN [state |-> "fulfilled", reason |-> NoErr]
    ELSE [state |-> "rejected", reason |-> run[r].err]
CheckErr(e) == e.op \in { "bucketExists", "makeBucket" }

\* C1: however the bootstrap is requested (awaiting minioInit or calling the
\* exported ensureBucketExists), the check sequence is executed at most once per
\* process, and every caller observes the same single outcome.
C1_BootstrapRunsOnce ==
    /\ Cardinality({ r \in Runs : Started(r) }) <= 1
    /\ \A r, q \in Runs : Finished(r) /\ Finished(q) => Outcome(r) = Outcome(q)
    /\ \A a \in Awaiters :
         awaiter[a].pc = "resumed" =>
            \A r \in Runs : Finished(r) => awaiter[a].observed = Outcome(r)

\* C2: in every run, for every value of retries, setBucketPolicy is issued only
\* after bucketExists returned true or makeBucket succeeded in that run.
C2_PolicyOnlyAfterBucketConfirmed ==
    \A r \in Runs : hist[r].nSet > 0 => hist[r].confirmed

\* C3: a run whose getBucketPolicy returned a text that is the same document as
\* the desired policy issues no setBucketPolicy; a run started after another run
\* resolved, whose policy read does not fail, issues none either, and no run
\* issues more than one.
C3_NoWriteWhenEqual ==
    \A r \in Runs :
        /\ hist[r].nSet <= 1
        /\ PastGet(r) /\ run[r].currentPolicyStr # Null
              /\ SameDocument(run[r].currentPolicyStr, desiredPolicyStr)
           => hist[r].nSet = 0
        /\ PastGet(r) /\ hist[r].startedClean /\ ~hist[r].getFailed => hist[r].nSet = 0

\* A second run, started after the first resolved, read the policy in another key
\* order and with whitespace, and resolved without a write.
C3_Witness ==
    \E r \in ManualRuns :
        /\ hist[r].startedClean
        /\ run[r].pc = "resolved"
        /\ run[r].currentPolicyStr = ReorderedPolicy
        /\ hist[r].nSet = 0

\* C4: whenever a run of ensureBucketExists has resolved (and so whenever
\* minioInit is fulfilled), the bucket exists and its policy is the same document
\* as the desired policy.
C4_ResolvedMeansReady ==
    LET Ready == /\ bucketPresent
                 /\ livePolicy # NoPolicy
                 /\ SameDocument(livePolicy, desiredPolicyStr)
    IN  /\ \A r \in Runs : run[r].pc = "resolved" => Ready
        /\ minioInit.state = "fulfilled" => Ready

\* minioInit is fulfilled after its run made the bucket on a later attempt and
\* wrote the policy.
C4_Witness ==
    /\ minioInit.state = "fulfilled"
    /\ hist[0].okAttempt >= 2
    /\ hist[0].setOk

\* The sleeps of a run whose check succeeded on attempt k: baseDelayMs * i before
\* attempt i + 1.
LinearSleeps(r, k) == [i \in 1 .. (k - 1) |-> run[r].baseDelayMs * i]

\* C5, as stated: when the check/create step succeeded on attempt k, it was invoked
\* exactly k times, the sleeps were baseDelayMs * i, and the run goes on to policy
\* reconciliation and succeeds.
C5_Original ==
    \A r \in Runs :
        hist[r].okAttempt > 0 =>
            /\ hist[r].nCheck = hist[r].okAttempt
            /\ hist[r].sleeps = LinearSleeps(r, hist[r].okAttempt)
            /\ hist[r].nGet = 1
            /\ run[r].pc # "rejected"

\* C5, amended: when the check/create step succeeded on attempt k (k <= retries),
\* it was invoked exactly k times, the sleeps were baseDelayMs * i before attempt
\* i + 1 (so non-decreasing), and the run goes on to policy reconciliation; it
\* succeeds unless setBucketPolicy fails.
C5_Amended ==
    \A r \in Runs :
        hist[r].okAttempt > 0 =>
            /\ hist[r].okAttempt <= run[r].retries
            /\ hist[r].nCheck = hist[r].okAttempt
            /\ hist[r].sleeps = LinearSleeps(r, hist[r].okAttempt)
            /\ \A i \in 1 .. Len(hist[r].sleeps) - 1 : hist[r].sleeps[i] <= hist[r].sleeps[i + 1]
            /\ hist[r].nGet = 1
            /\ run[r].pc \in { "getBucketPolicy", "setBucketPolicy", "resolved", "rejected" }
            /\ run[r].pc = "rejected" => run[r].err = Err("setBucketPolicy", 0)

\* The import-time run failed twice, succeeded on attempt 3 and resolved.
C5_Witness ==
    /\ hist[0].okAttempt = 3
    /\ hist[0].sleeps = << 500, 1000 >>
    /\ run[0].pc = "resolved"

\* C6: a run (of at least one attempt) whose check failed on every attempt rejects
\* with the error of the last attempt after exactly `retries` invocations of the
\* check, never sleeps after the last attempt, and issues neither getBucketPolicy
\* nor setBucketPolicy: it gets to the policy only through a successful attempt.
C6_AllAttemptsFail ==
    \A r \in Runs :
        /\ run[r].pc = "sleep" => run[r].attempt < run[r].retries
        /\ Len(hist[r].sleeps) <= hist[r].nCheck
        /\ run[r].retries >= 1 /\ hist[r].nGet + hist[r].nSet > 0 => hist[r].okAttempt > 0
        /\ run[r].pc = "rejected" /\ CheckErr(run[r].err) =>
              /\ hist[r].nCheck = run[r].retries
              /\ run[r].err.n = run[r].retries
              /\ Len(hist[r].sleeps) = run[r].retries - 1
              /\ hist[r].nGet = 0
              /\ hist[r].nSet = 0
              /\ hist[r].okAttempt = 0

\* The import-time run was rejected by its third failed check, and minioInit with it.
C6_Witness ==
    /\ run[0].pc = "rejected"
    /\ CheckErr(run[0].err)
    /\ hist[0].nCheck = 3
    /\ minioInit.state = "rejected"

\* C7: setBucketPolicy is invoked at most once per run; when it fails the run is
\* rejected with that error (and so is minioInit); a run that resolved either
\* wrote the policy successfully or found it equal, and the live policy is then
\* the desired one.
C7_PolicyWriteFailureIsFatal ==
    /\ \A r \in Runs :
        /\ hist[r].nSet <= 1
        /\ hist[r].nSet = 1 /\ run[r].pc # "setBucketPolicy" =>
              \/ hist[r].setOk /\ run[r].pc = "resolved"
              \/ ~hist[r].setOk /\ run[r].pc = "rejected"
                    /\ run[r].err = Err("setBucketPolicy", 0)
        /\ run[r].pc = "resolved" =>
              /\ hist[r].nSet = 0 \/ hist[r].setOk
              /\ SameDocument(livePolicy, desiredPolicyStr)
    /\ minioInit.state = "fulfilled" => hist[0].nSet = 0 \/ hist[0].setOk
    /\ hist[0].nSet = 1 /\ ~hist[0].setOk /\ minioInit.state # "pending"
          => minioInit = [state |-> "rejected", reason |-> Err("setBucketPolicy", 0)]

\* minioInit was rejected by the failed policy write, the old policy still in place.
C7_Witness ==
    /\ minioInit = [state |-> "rejected", reason |-> Err("setBucketPolicy", 0)]
    /\ livePolicy = WritablePolicy

\* C8: when getBucketPolicy fails, or answers with an empty text or null, the run does not
\* end there: it issues setBucketPolicy, exactly once, and ends as that write ends.
C8_PolicyReadFailureMeansAbsent ==
    \A r \in Runs :
        hist[r].getFailed \/ (PastGet(r) /\ run[r].currentPolicyStr \in { EmptyText, Null }) =>
            /\ PastGet(r)
            /\ hist[r].nSet = 1
            /\ run[r].pc = "resolved" => hist[r].setOk
            /\ run[r].pc = "rejected" => run[r].err = Err("setBucketPolicy", 0)

\* One run resolved after its policy read failed, another wrote the policy after
\* an empty answer.
C8_Witness ==
    /\ \E r \in Runs : hist[r].getFailed /\ run[r].pc = "resolved"
    /\ \E q \in Runs : ~hist[q].getFailed /\ run[q].currentPolicyStr = EmptyText /\ hist[q].setOk

\* C9: policyEquals is true of two texts that are the same JSON document whatever
\* the key order and the whitespace; when both texts parse it is exactly
\* structural equality; only when one does not parse it is equality of the
\* trimmed texts; it is reflexive and symmetric.
C9_PolicyEqualsIsStructural ==
    eq # "none" =>
        LET bothParse == JSONparse(aStr).ok /\ JSONparse(bStr).ok IN
        /\ SameDocument(aStr, bStr) => eq = "true"
        /\ bothParse => (eq = "true" <=> SameDocument(aStr, bStr))
        /\ ~bothParse => (eq = "true" <=> trim(aStr) = trim(bStr))
        /\ aStr = bStr => eq = "true"
        /\ (eq = "true") <=> policyEquals(bStr, aStr)

\* The desired policy and the same document in another key order, with whitespace.
C9_Witness ==
    /\ eq = "true"
    /\ aStr = desiredPolicyStr
    /\ bStr = ReorderedPolicy

\* C10: putObject is issued only once minioInit has been fulfilled.
C10_PutOnlyAfterBootstrap ==
    \A u \in Uploads : upload[u].nPut > 0 => upload[u].initAtPut = "fulfilled"

\* C11: in uploadToMinio, putObject is issued only after bucketExists answered
\* true in that call; a call whose check answered false or threw is rejected
\* with no putObject issued; putObject is issued at most once per call, also when
\* it failed.
C11_PutOnlyAfterBucketExists ==
    \A u \in Uploads :
        /\ upload[u].nPut <= 1
        /\ upload[u].nPut > 0 => upload[u].exists = "true"
        /\ upload[u].exists \in { "false", "threw" } =>
              upload[u].pc = "rejected" /\ upload[u].nPut = 0
        /\ upload[u].pc = "putObject" => upload[u].nPut = 1

\* One call was rejected for the missing bucket without a write, while the
\* bootstrap was still to create it.
C11_Witness ==
    \E u \in Uploads :
        /\ upload[u].exists = "false"
        /\ upload[u].pc = "rejected"
        /\ upload[u].nPut = 0
        /\ objects = {}

\* The public URL of an object as a function of the call's arguments alone.
ExpectedPublicUrl(filename, path) ==
    << "http://localhost:9000/", "bucket", "/" >> \o getObjectKey(filename, path, TRUE).v

\* C12: a getFromMinio call, public or signed, hands out a URL, builds a key or
\* calls presignedGetObject only after bucketExists answered true in that call; a
\* call whose check answered false or threw is rejected without any of them; the
\* URL of a public call is a function of (bucket, filename, path), got without
\* presignedGetObject.
C12_UrlOnlyAfterBucketExists ==
    \A g \in Fetches :
        /\ fetch[g].url # Null \/ fetch[g].key # Null \/ fetch[g].nPresign > 0
              => fetch[g].exists = "true"
        /\ fetch[g].exists \in { "false", "threw" } =>
              /\ fetch[g].pc = "rejected"
              /\ fetch[g].url = Null /\ fetch[g].key = Null /\ fetch[g].nPresign = 0
        /\ fetch[g].pc = "resolved" /\ fetch[g].isPublic =>
              /\ fetch[g].url = ExpectedPublicUrl(fetch[g].filename, fetch[g].path)
              /\ fetch[g].nPresign = 0
        /\ fetch[g].pc = "resolved" /\ ~fetch[g].isPublic => fetch[g].nPresign = 1

\* A public call for "C p.J" under "a b" resolved with the URL of a%20b/c_p.j.
C12_Witness ==
    \E g \in Fetches :
        /\ fetch[g].pc = "resolved"
        /\ fetch[g].isPublic
        /\ fetch[g].filename = << "C", " ", "p", ".", "J" >>
        /\ fetch[g].url = << "http://localhost:9000/", "bucket", "/",
                             "a", "%", "2", "0", "b", "/", "c", "_", "p", ".", "j" >>

\* The last "/" of a key (0 when there is none), the filename component after it
\* and the path component before it.
LastSlash(key) ==
    LET at == { i \in 1 .. Len(key) : key[i] = "/" }
    IN  IF at = {} THEN 0 ELSE CHOOSE i \in at : \A j \in at : j <= i
NameOf(key) == SubSeq(key, LastSlash(key) + 1, Len(key))
DirOf(key) == SubSeq(key, 1, LastSlash(key) - 1)

\* The filename rule's image: non-empty, at most 100 characters of [a-z0-9_.-], no
\* leading dot.
CleanName(name) ==
    /\ name # << >>
    /\ Len(name) <= 100
    /\ \A i \in 1 .. Len(name) : name[i] \in Range(LowerChars) \cup Digits \cup { "_", ".", "-" }
    /\ name[1] # "."

\* The path rule: no leading "/", no backslash, no "..".
PassesPathRule(path) ==
    /\ path # << >>
    /\ path[1] # "/"
    /\ \A i \in 1 .. Len(path) : path[i] # "\\"
    /\ ~\E i \in 1 .. Len(path) - 1 : path[i] = "." /\ path[i + 1] = "."

\* A key that was built from sanitized data for a call with the given path.
CleanKey(key, path) ==
    /\ CleanName(NameOf(key))
    /\ IF path \in { Undefined, << >> }
       THEN LastSlash(key) = 0
       ELSE /\ PassesPathRule(path)
            /\ LastSlash(key) > 1
            /\ PassesPathRule(DirOf(key))
            /\ \A i \in 1 .. Len(DirOf(key)) : DirOf(key)[i] \notin { " ", "\t", "\n", "?", "#" }

\* C13: every key handed to putObject or presignedGetObject, embedded in a public
\* URL or stored in the bucket has a filename component that is non-empty, at most
\* 100 characters of [a-z0-9_.-] without a leading dot, and a path component that
\* comes from a path that passed the path rule.
C13_KeysAreSanitized ==
    /\ \A u \in Uploads : upload[u].nPut > 0 => CleanKey(upload[u].key, upload[u].path)
    /\ \A g \in Fetches :
         fetch[g].nPresign > 0 \/ fetch[g].url # Null => CleanKey(fetch[g].key, fetch[g].path)
    /\ \A k \in objects : CleanName(NameOf(k))

\* The over-long name was stored, cut to 100 characters, under the encoded path.
C13_Witness ==
    \E u \in Uploads :
        /\ upload[u].pc = "resolved"
        /\ upload[u].filename = LongName
        /\ upload[u].path = << "a", " ", "b" >>
        /\ Len(NameOf(upload[u].key)) = 100
        /\ DirOf(upload[u].key) = << "a", "%", "2", "0", "b" >>
        /\ upload[u].key \in objects

\* A valid request to upload(): a recognised target, a filename that sanitizes to
\* a non-empty name, a JPEG within the size limit that reads the same both times.
ValidUpload(q) ==
    /\ req[q].entry = "upload"
    /\ req[q].target = "table"
    /\ validateFilename(req[q].filename).ok
    /\ req[q].file = GoodFile

\* The store was healthy for the request's uploadToMinio call: bucketExists
\* answered true and no putObject failed.
HealthyStoreFor(q) ==
    /\ bucketPresent
    /\ upload[CallOf(q)].exists = "true"
    /\ ~(upload[CallOf(q)].nPut > 0 /\ upload[CallOf(q)].pc = "rejected")

\* C14: a valid upload() against a healthy store returns { ok: true } after
\* writing exactly one object, under the target's directory.
C14_ValidUploadStoresObject ==
    \A q \in Requests :
        ValidUpload(q) /\ req[q].pc = "returned" /\ HealthyStoreFor(q) =>
            /\ req[q].result = "ok"
            /\ upload[CallOf(q)].nPut = 1
            /\ upload[CallOf(q)].key \in objects

\* C15: for the same filename and path, the key under which uploadToMinio hands
\* the object to putObject is the key in the URL of a public getFromMinio call;
\* when one of the calls gets a key out of its arguments so does the other, and a
\* resolved upload left its object under that key.
C15_UploadKeyIsUrlKey ==
    /\ \A u \in Uploads : upload[u].pc = "resolved" => upload[u].key \in objects
    /\ \A u \in Uploads, g \in Fetches :
         /\ fetch[g].isPublic
         /\ fetch[g].filename = upload[u].filename
         /\ fetch[g].path = upload[u].path
         /\ upload[u].exists = "true" /\ fetch[g].exists = "true"
         => /\ upload[u].nPut > 0 <=> fetch[g].pc = "resolved"
            /\ upload[u].nPut > 0 =>
                  fetch[g].url = << "http://localhost:9000/", "bucket", "/" >> \o upload[u].key

\* "C p.J" under "a b" was stored as a%20b/c_p.j, and the public URL asked for
\* afterwards ends with that key.
C15_Witness ==
    \E u \in Uploads, g \in Fetches :
        /\ upload[u].pc = "resolved"
        /\ upload[u].filename = << "C", " ", "p", ".", "J" >>
        /\ upload[u].key = << "a", "%", "2", "0", "b", "/", "c", "_", "p", ".", "j" >>
        /\ upload[u].key \in objects
        /\ fetch[g].pc = "resolved"
        /\ fetch[g].isPublic
        /\ fetch[g].filename = upload[u].filename /\ fetch[g].path = upload[u].path
        /\ fetch[g].url = << "http://localhost:9000/", "bucket", "/" >> \o upload[u].key

\* C16: in upload(), uploadToMinio is called (and so bucketExists or putObject
\* issued, a key built) only after validateUploadInput completed successfully for
\* the request: the filename passed the filename rule and the bytes that were read
\* are within the declared limits and carry the JPEG signature.
C16_ValidationGatesStorage ==
    \A q \in Requests :
        /\ upload[CallOf(q)] # IdleUpload => req[q].entry = "upload" /\ req[q].validated
        /\ req[q].pc \in { "arrayBuffer", "uploadToMinio" } \/ req[q].result = "ok"
              => req[q].validated
        /\ req[q].validated =>
              /\ validateFilename(req[q].filename).ok
              /\ req[q].file.isObject /\ req[q].file.fn
              /\ req[q].file.size <= 1048576
              /\ isJpegArrayBuffer(req[q].inspected)

\* The request's uploadToMinio call got its answer from bucketExists, after the
\* validation had read the JPEG bytes.
C16_Witness ==
    \E q \in Requests :
        /\ req[q].pc = "uploadToMinio"
        /\ req[q].validated
        /\ req[q].inspected = JpegBytes
        /\ upload[CallOf(q)].exists = "true"

\* The request's input fails validation: an unknown target, a filename that
\* sanitizes to nothing, a payload that is no file, too large, not an image, not
\* readable or without the JPEG signature.
InvalidInput(q) ==
    \/ req[q].target # "table"
    \/ ~CleanName(IF validateFilename(req[q].filename).ok
                  THEN validateFilename(req[q].filename).v ELSE << >>)
    \/ ~req[q].file.isObject \/ ~req[q].file.fn
    \/ req[q].file.size > 1048576
    \/ req[q].file.type[1] # "image/"
    \/ ~isJpegArrayBuffer(req[q].file.reads[1])

\* C17: a validation failure inside upload() ends the call with the result
\* { ok: false, error: "Upload error" }: the promise resolves, uploadToMinio is not
\* called, and the validation is not run again (the payload is read at most once).
C17_ValidationFailureIsAResult ==
    \A q \in Requests :
        req[q].entry = "upload" =>
            /\ req[q].pc = "returned" => req[q].settled = "resolved"
            /\ req[q].pc = "returned" /\ InvalidInput(q) =>
                  /\ req[q].result = "error"
                  /\ req[q].failedAt \in { "target", "filename", "file" }
            /\ req[q].failedAt \in { "target", "filename", "file" } =>
                  /\ req[q].pc = "returned"
                  /\ req[q].result = "error"
                  /\ req[q].nRead <= 1
                  /\ upload[CallOf(q)] = IdleUpload

\* upload() returned the error result for a payload of zero bytes, read once.
C17_Witness ==
    \E q \in Requests :
        /\ req[q].entry = "upload"
        /\ req[q].pc = "returned"
        /\ req[q].failedAt = "file"
        /\ req[q].inspected = ZeroBytes
        /\ req[q].result = "error"
        /\ req[q].settled = "resolved"

\* The request's payload passes the file check: a file-like object, within the
\* size limit, declared an image, whose bytes carry the JPEG signature.
FilePasses(q) ==
    /\ req[q].file.isObject /\ req[q].file.fn
    /\ req[q].file.size <= 1048576
    /\ req[q].file.type[1] = "image/"
    /\ isJpegArrayBuffer(req[q].file.reads[1])

\* C18: validateUploadInput checks the filename first, then the optional path,
\* then the file.  A failing filename fails the call before any byte of the file
\* is read; a path that fails the path rule yields path = undefined and does not
\* fail the call; a failing file fails the call.
C18_CompositeValidation ==
    \A q \in Requests :
        LET nameOk == validateFilename(req[q].filename).ok
            pathOk == req[q].path # Undefined /\ PassesPathRule(req[q].path)
        IN  req[q].pc # "idle" /\ req[q].failedAt # "target" =>
            /\ ~nameOk => /\ req[q].pc = "returned"
                          /\ req[q].failedAt = "filename"
                          /\ req[q].nRead = 0
                          /\ req[q].entry = "validate" => req[q].settled = "rejected"
            /\ nameOk => /\ req[q].failedAt # "filename"
                         /\ req[q].parsedName = validateFilename(req[q].filename).v
                         /\ ~pathOk => req[q].parsedPath = Undefined
                         /\ pathOk => /\ req[q].parsedPath # Undefined
                                      /\ req[q].parsedPath[Len(req[q].parsedPath)] = "/"
            /\ req[q].entry = "validate" /\ req[q].pc = "returned" /\ nameOk =>
                  /\ FilePasses(q) => req[q].settled = "resolved" /\ req[q].validated
                  /\ ~FilePasses(q) => req[q].settled = "rejected" /\ req[q].failedAt = "file"

\* validateUploadInput returned for the path "/img": the path is undefined, the
\* filename and the file are validated.
C18_Witness ==
    \E q \in Requests :
        /\ req[q].entry = "validate"
        /\ req[q].path = << "/", "i", "m", "g" >>
        /\ req[q].pc = "returned"
        /\ req[q].settled = "resolved"
        /\ req[q].parsedPath = Undefined
        /\ req[q].parsedName = << "c", "_", "p" >>
        /\ req[q].nRead = 1

\* C19: sanitizeFilename applied to its own result gives that result again (null
\* stays null), and validateFilename applied to its own output returns it unchanged.
C19_SanitizeIsIdempotent ==
    /\ input.fn = "sanitizeFilename" =>
          \A i \in 1 .. Len(output) - 1 : output[i + 1] = output[i]
    /\ input.fn = "validateFilename" =>
          \A i \in 1 .. Len(output) - 1 : output[i].ok /\ output[i + 1] = output[i]

\* ".A!" became "a_", and "a_" again.
C19_Witness ==
    /\ input = [fn |-> "sanitizeFilename", arg |-> << ".", "A", "!" >>]
    /\ output = << << "a", "_" >>, << "a", "_" >> >>

\* The filename rule, character by character: lower case; a space or any other
\* character outside [a-zA-Z0-9_.-] becomes an underscore.
RuleChar(c) ==
    IF \E i \in 1 .. 26 : UpperChars[i] = c
    THEN LowerChars[CHOOSE i \in 1 .. 26 : UpperChars[i] = c]
    ELSE IF c \in Range(LowerChars) \cup Digits \cup { "_", ".", "-" } THEN c
    ELSE "_"
\* Without its leading dots; cut to n characters.
DropLeadingDots(y) ==
    LET nd == { i \in 1 .. Len(y) : y[i] # "." }
    IN  IF nd = {} THEN << >> ELSE SubSeq(y, CHOOSE i \in nd : \A j \in nd : i <= j, Len(y))
TruncateTo(y, n) == IF Len(y) <= n THEN y ELSE SubSeq(y, 1, n)
\* Without the whitespace at its ends.
Trimmed(x) ==
    LET ns == { i \in 1 .. Len(x) : ~IsSpace(x[i]) }
    IN  IF ns = {} THEN << >>
        ELSE SubSeq(x, CHOOSE i \in ns : \A j \in ns : i <= j,
                       CHOOSE i \in ns : \A j \in ns : j <= i)
\* Each run of whitespace shrunk to one space: of a run, the last stays.
CollapseRuns(x) ==
    LET LastOfRun(i) == IF i = Len(x) THEN TRUE ELSE ~IsSpace(x[i + 1])
        kept == SelectSeq([i \in 1 .. Len(x) |-> i], LAMBDA i : ~IsSpace(x[i]) \/ LastOfRun(i))
    IN  [j \in 1 .. Len(kept) |-> x[kept[j]]]

\* The rule as stated: every space is replaced by an underscore.
StatedRule(x) == TruncateTo(DropLeadingDots([i \in 1 .. Len(x) |-> RuleChar(x[i])]), 100)
\* The rule with the input trimmed and each run of whitespace replaced by one
\* underscore.
TrimmingRule(x) == StatedRule(CollapseRuns(Trimmed(x)))

\* What validateFilename has to give for the argument under a rule's result.
Expected(ruled) ==
    IF input.arg = Undefined \/ ruled = << >> THEN ZodError ELSE Parsed(ruled)

\* C20, as stated: validateFilename returns the input lower-cased, every space and
\* every other character outside [a-zA-Z0-9_.-] replaced by an underscore,
\* leading dots stripped, cut to 100 characters, and rejects the input when that
\* is empty or the input is not a string.
C20_Original ==
    input.fn = "validateFilename" /\ output # << >> =>
        output[1] = Expected(StatedRule(input.arg))

\* C20, amended: validateFilename first trims the whitespace at both ends and
\* replaces each run of whitespace by one underscore, then replaces every other
\* character outside [a-zA-Z0-9_.-] by an underscore, strips leading dots, cuts to
\* 100 characters and lower-cases; it rejects the input when that is empty or the
\* input is not a string, and never returns an empty string.
C20_Amended ==
    input.fn = "validateFilename" /\ output # << >> =>
        /\ output[1] = Expected(TrimmingRule(input.arg))
        /\ output[1].ok => output[1].v # << >>

\* The name of 102 characters with two spaces in the middle came back with one
\* underscore for both, cut to 100 characters.
C20_Witness ==
    /\ input.fn = "validateFilename"
    /\ Len(input.arg) = 102
    /\ output # << >>
    /\ output[1].ok
    /\ Len(output[1].v) = 100
    /\ output[1].v[49] = "x" /\ output[1].v[50] = "_" /\ output[1].v[51] = "x"


\* The path rule, read off the string: empty, a leading '/', a backslash, or two
\* dots in a row.
PathRefused(p) ==
    \/ p = Undefined
    \/ p = << >>
    \/ p[1] = "/"
    \/ \E i \in 1 .. Len(p) : p[i] = "\\"
    \/ \E i \in 2 .. Len(p) : p[i - 1] = "." /\ p[i] = "."
\* Without its trailing slashes.
Stem(p) ==
    LET ns == { i \in 1 .. Len(p) : p[i] # "/" }
    IN  IF ns = {} THEN << >> ELSE SubSeq(p, 1, CHOOSE i \in ns : \A j \in ns : j <= i)

\* C21, as stated: validatePath rejects a path that is empty, starts with '/',
\* contains a backslash or contains '..', returns every other string ending in
\* exactly one '/', and validatePath(validatePath(p)) = validatePath(p).
C21_Original ==
    input.fn = "validatePath" /\ output # << >> =>
        /\ output[1].ok = ~PathRefused(input.arg)
        /\ output[1].ok => output[1].v = Stem(input.arg) \o << "/" >>
        /\ Len(output) > 1 => output[2] = output[1]

\* C21, amended: validatePath rejects a path that is empty, starts with '/',
\* contains a backslash or contains '..', returns every other string unchanged
\* when it ends with '/' and with one '/' appended when it does not, and
\* validatePath(validatePath(p)) = validatePath(p).
C21_Amended ==
    input.fn = "validatePath" /\ output # << >> =>
        /\ output[1].ok = ~PathRefused(input.arg)
        /\ output[1].ok =>
              output[1].v = IF input.arg[Len(input.arg)] = "/" THEN input.arg
                            ELSE input.arg \o << "/" >>
        /\ Len(output) > 1 => output[2] = output[1]

\* "a." became "a./", and "a./" again.
C21_Witness ==
    /\ input = [fn |-> "validatePath", arg |-> << "a", "." >>]
    /\ output = << Parsed(<< "a", ".", "/" >>), Parsed(<< "a", ".", "/" >>) >>


\* The non-empty pieces between the slashes of a path.
Segments(p) == SelectSeq(SplitSlash(p, << >>), LAMBDA seg : seg # << >>)
\* The pieces joined again, a slash after each.
RECURSIVE Prefix(_)
Prefix(segs) ==
    IF segs = << >> THEN << >>
    ELSE encodeURIComponent(Head(segs)) \o << "/" >> \o Prefix(Tail(segs))
\* Whether a path was given.
PathGiven(p) == p # Undefined /\ p # << >>
\* The filename part of the i-th key: as it is for storage, encoded for a URL.
NamePart(i) ==
    LET name == validateFilename(input.arg[1]).v
    IN  IF i = 1 THEN name ELSE encodeURIComponent(name)

\* C22: a key that getObjectKey returns is the filename alone when no path is
\* given and otherwise the path's non-empty segments, each percent-encoded, joined
\* by '/', then '/' and the filename; it holds no "//" and neither starts nor
\* ends with '/'.
C22_KeyShape ==
    input.fn = "getObjectKey" =>
        \A i \in 1 .. Len(output) :
            output[i].ok =>
                LET key == output[i].v IN
                /\ key = IF PathGiven(input.arg[2])
                          THEN Prefix(Segments(input.arg[2])) \o NamePart(i)
                          ELSE NamePart(i)
                /\ key # << >>
                /\ key[1] # "/" /\ key[Len(key)] # "/"
                /\ \A j \in 2 .. Len(key) : ~(key[j - 1] = "/" /\ key[j] = "/")

\* getObjectKey("a.jpg", "folder") = "folder/a.jpg".
C22_Witness ==
    /\ input = [fn |-> "getObjectKey",
                arg |-> << << "a", ".", "j", "p", "g" >>, << "f", "o", "l", "d", "e", "r" >> >>]
    /\ output # << >>
    /\ output[1] = Parsed(<< "f", "o", "l", "d", "e", "r", "/", "a", ".", "j", "p", "g" >>)


HasSpace(s) == \E i \in 1 .. Len(s) : s[i] = " "
HasEncodedSpace(s) ==
    \E i \in 1 .. Len(s) - 2 : s[i] = "%" /\ s[i + 1] = "2" /\ s[i + 2] = "0"

\* C23, as stated: for a filename with a space, the key built with
\* needEncodeFilename = true has the space percent-encoded in its filename part,
\* the key built without the flag has not, and the two keys differ.
C23_Original ==
    /\ input.fn = "getObjectKey"
    /\ Len(output) = 2
    /\ output[1].ok /\ output[2].ok
    /\ HasSpace(input.arg[1])
    => /\ HasEncodedSpace(NameOf(output[2].v))
       /\ ~HasEncodedSpace(NameOf(output[1].v))
       /\ output[2].v # output[1].v

\* C23, amended: the filename goes through filenameSchema before it is encoded, so
\* a space in it is trimmed or replaced by an underscore in both forms of the key:
\* neither holds a space or a percent escape in its filename part, and the
\* storage-form and URL-form keys are equal.
C23_Amended ==
    /\ input.fn = "getObjectKey"
    /\ Len(output) = 2
    => /\ output[2] = output[1]
       /\ output[1].ok =>
             /\ ~HasSpace(NameOf(output[1].v))
             /\ \A i \in 1 .. Len(output[2].v) :
                    i > LastSlash(output[2].v) => output[2].v[i] # "%"

\* "C p" without a path gave "c_p" for storage and "c_p" for the URL.
C23_Witness ==
    /\ input = [fn |-> "getObjectKey", arg |-> << << "C", " ", "p" >>, Undefined >>]
    /\ output = << Parsed(<< "c", "_", "p" >>), Parsed(<< "c", "_", "p" >>) >>


\* C24: a byte buffer passes the JPEG sniffing exactly when it has at least 4
\* bytes, starts with FF D8 and ends with FF D9; a shorter buffer fails whatever
\* it holds.
C24_JpegSniffing ==
    input.fn = "isJpegArrayBuffer" /\ output # << >> =>
        LET n == Len(input.arg) IN
        /\ output[1] = (/\ n >= 4
                        /\ SubSeq(input.arg, 1, 2) = << 255, 216 >>
                        /\ SubSeq(input.arg, n - 1, n) = << 255, 217 >>)
        /\ n < 4 => output[1] = FALSE
        /\ input.arg = << 0, 0, 0, 0, 0, 0 >> => output[1] = FALSE

\* FF D8 00 00 FF D9 passed.
C24_Witness ==
    /\ input = [fn |-> "isJpegArrayBuffer", arg |-> << 255, 216, 0, 0, 255, 217 >>]
    /\ output = << TRUE >>


\* C25: a payload that validateFile accepted declares a size of at most 1 MiB and
\* a MIME type that is a member of the allow-list; "image/png" is not accepted,
\* whatever its bytes.
C25_OnlyAllowListedTypes ==
    \A q \in Requests :
        req[q].validated =>
            /\ req[q].file.size <= maxImageSize
            /\ req[q].file.type \in allowedImageTypes


\* Whether an environment lacks a required value or has a port that is not a
\* finite positive number.
BadEnv(env) ==
    \/ \E i \in DOMAIN ConfigKeys : env[ConfigKeys[i]] = Unset \/ env[ConfigKeys[i]] = ""
    \/ ~ToNumber(env.MINIO_PORT).finite
    \/ ToNumber(env.MINIO_PORT).n <= 0
\* Run 0 was never started and issued no store call.
NeverStarted == run[0] = IdleRun /\ hist[0] = NoHist

\* C26: under an environment with a required value absent or empty, or a port that
\* is not a finite positive number, the load of the module throws; after a load
\* that threw, the client was not constructed, the bootstrap was not started, no
\* store call was issued, and minioInit never settles.
C26_ConfigFailureAborts ==
    /\ BadEnv(config.env) /\ config.pc # "start" => config.pc = "threw"
    /\ config.pc # "loaded" =>
          /\ ~config.client
          /\ NeverStarted
          /\ minioInit.state = "pending"
          /\ ~bucketPresent /\ livePolicy = NoPolicy /\ objects = {}

\* The port "abc" made the load throw at MINIO_PORT.
C26_Witness ==
    /\ config.pc = "threw"
    /\ config.failedAt = "MINIO_PORT"
    /\ config.env.MINIO_PORT = "abc"
    /\ config.env.MINIO_ENDPOINT = "x"


\* A run of ensureBucketExists is suspended in its backoff sleep.
Sleeping == \E r \in Runs : run[r].pc = "sleep"
\* The next call of uploadToMinio, of getFromMinio.
NextUploadCall(u) == upload[u].pc = "idle" /\ \A v \in Uploads : v < u => upload[v].pc # "idle"
NextFetchCall(g) == fetch[g].pc = "idle" /\ \A h \in Fetches : h < g => fetch[h].pc # "idle"

\* C27: while a run of ensureBucketExists sleeps between attempts, a call of
\* uploadToMinio or getFromMinio can start, its bucketExists call can settle, and
\* its putObject or presignedGetObject call can return, which completes it: none
\* of its steps waits for the run.
C27_SleepDoesNotBlock ==
    Sleeping =>
        /\ \A u \in Uploads :
              /\ NextUploadCall(u) =>
                    ENABLED UploadToMinio(u, << "a", ".", "j", "p", "g" >>, << "i", "m", "g" >>)
              /\ upload[u].pc = "bucketExists" =>
                    ENABLED (UploadBucketExistsThrows(u) \/ UploadBucketExistsReturns(u))
              /\ upload[u].pc = "putObject" => ENABLED PutObjectReturns(u)
        /\ \A g \in Fetches :
              /\ NextFetchCall(g) =>
                    ENABLED GetFromMinio(g, << "a", ".", "j", "p", "g" >>, << "i", "m", "g" >>,
                                         FALSE, DefaultExpires)
              /\ fetch[g].pc = "bucketExists" =>
                    ENABLED (FetchBucketExistsThrows(g) \/ FetchBucketExistsReturns(g))
              /\ fetch[g].pc = "presignedGetObject" => ENABLED PresignedGetObjectReturns(g)

\* Run 0 sleeps after its first attempt, minioInit is pending, and an upload and
\* a signed-URL request have completed with their store calls made.
C27_Witness ==
    /\ run[0].pc = "sleep" /\ run[0].attempt = 1
    /\ minioInit.state = "pending"
    /\ upload[1].pc = "resolved" /\ upload[1].nPut = 1
    /\ fetch[1].pc = "resolved" /\ fetch[1].nPresign = 1


EndsWithJpg(name) ==
    Len(name) >= 4 /\ SubSeq(name, Len(name) - 3, Len(name)) = << ".", "j", "p", "g" >>

\* C29: the filename that getObjectKey puts into the key, for a call of
\* uploadToMinio made by upload() with a validated filename, ends with ".jpg".
C29_KeyKeepsExtension ==
    \A q \in Requests :
        upload[CallOf(q)].safeName # Null => EndsWithJpg(upload[CallOf(q)].safeName)


\* Every run has resolved and minioInit is fulfilled.
AllRunsDone == (\A r \in Runs : run[r].pc = "resolved") /\ minioInit.state = "fulfilled"
\* How many runs had their makeBucket succeed.
MakersCount == Cardinality({ r \in Runs : hist[r].made })

\* C30: with the runs of ensureBucketExists racing for a missing bucket on a
\* healthy store, no run is ever rejected, makeBucket succeeds at most once, a run
\* whose makeBucket failed sleeps once and finds the bucket in its second attempt,
\* and a run past the loop has the bucket there for its policy calls; once every
\* run has resolved and minioInit is fulfilled, makeBucket has succeeded exactly
\* once and the bucket holds the desired policy.
C30_RaceIsBenign ==
    /\ \A r \in Runs :
          /\ run[r].pc # "rejected"
          /\ run[r].attempt <= 2 /\ Len(hist[r].sleeps) <= 1
          /\ run[r].attempt = 2 => bucketPresent /\ ~hist[r].made
          /\ run[r].pc \in { "getBucketPolicy", "setBucketPolicy", "resolved" } => bucketPresent
    /\ minioInit.state # "rejected"
    /\ MakersCount <= 1
    /\ AllRunsDone =>
          /\ bucketPresent
          /\ MakersCount = 1
          /\ livePolicy = desiredPolicyStr

\* Both runs saw the bucket missing in their first attempt; run 1 made it, run 0
\* lost, slept 500 ms and found the bucket in its second attempt; both resolved.
C30_Witness ==
    /\ AllRunsDone
    /\ hist[1].made /\ hist[1].okAttempt = 1 /\ hist[1].sleeps = << >>
    /\ ~hist[0].made /\ hist[0].okAttempt = 2 /\ hist[0].sleeps = << 500 >>
    /\ livePolicy = desiredPolicyStr

====
